---- MODULE Spec2Model ----
(***************************************************************************)
(* A model of the two transformation engines of the SYCL/ESIMD compiler    *)
(* sources: the ESIMD intrinsic lowering pass (LowerESIMD.cpp) and the     *)
(* kernel-object visitor with its handlers (SemaSYCL.cpp).                 *)
(***************************************************************************)
EXTENDS Integers, Sequences, FiniteSets, TLC

VARIABLES
  \* ---- build flavour shared by the lowering specifications
  asserts,        \* TRUE: assert()/llvm_unreachable abort; FALSE: NDEBUG build
  host,           \* byte order of the host the pass is compiled for
  \* ---- rule evaluation on one source call (createESIMDIntrinsicArgs & co)
  aPc, aKey, aCall, aArgs, aSuffix, aNum,
  \* ---- SYCLLowerESIMDPass::run on one function
  F, GVTS, pc, idx, ESIMDIntrCalls, ESIMDToErases, created, repl, erased,
  mdNode, result, diag,
  \* ---- the kernel-object walks of CheckSYCLKernelCall/ConstructOpenCLKernel
  kobj,           \* the kernel object type being visited
  vPc,            \* which of the walks is running
  tasks,          \* pending visitor calls, innermost first
  FieldCheckerInvalid, UnionCheckerInvalid, UnionCount,
  CollectionStack, attrRD, attrFD,
  CurOffset, ArrayBaseOffsets, StructDepth, ParamDescs,
  hlog,           \* per handler: the notifications it received, in order
  hdrTrace,       \* CurOffset before/after each enter/leave of int_header
  reached,        \* the structs visitRecord was called on
  IsSIMDKernel,   \* isESIMDKernelType(KernelObj)
  kernel_decl,    \* the SyclKernelDeclCreator of ConstructOpenCLKernel
  kernel_body,    \* its SyclKernelBodyCreator
  KernelDecl,     \* the entry function: its parameters and body, once set
  KernelNameInvalid,  \* !KernelNameTypeVisitor.isValid()
  KernelFuncInvalid,  \* KernelFunc->isInvalidDecl()
  SizeOfParams,   \* SyclKernelArgsSizeChecker::SizeOfParams
  SizeTrap,       \* "" or how the size checker stopped the compilation
  NullDeref,      \* what a call through a null pointer does in this build
  SizeWarned,     \* warn_sycl_kernel_too_big_args was reported
  \* ---- Sema::MarkDevice and Sema::MarkSyclSimd on one kernel
  SYCLCG,         \* the call graph: per function, its callees in order
  Decls,          \* per function: its attributes in order, isInvalidDecl()
  mPc,            \* where MarkDevice is
  KernelSet, RecursiveSet,
  Frames,         \* the activations of CollectKernelSet, innermost last
  Visited, WorkList, KernelBody,
  Attrs,          \* the attributes CollectPossibleKernelAttributes returned
  ToApply,        \* those the loop over Attrs has not reached yet
  collected,      \* the functions whose attributes were collected, in order
  inserted,       \* the functions CollectKernelSet went into, in order
  Diags,          \* the diagnostics reported, in order
  \* ---- getSLMSizeMDNode on one function of a module
  KernelMD,       \* the functions that have a genx.kernels node
  UseLists,       \* per function: the functions of the calls that use it
  slmF,           \* the function getSLMSizeMDNode is asked about
  slmPc,          \* where the outermost call is
  slmFrames,      \* the activations of getSLMSizeMDNode, innermost last
  slmRet          \* the value an activation has just returned

buildVars == <<asserts, host>>
argsVars  == <<aPc, aKey, aCall, aArgs, aSuffix, aNum>>
lowerVars == <<F, GVTS, pc, idx, ESIMDIntrCalls, ESIMDToErases, created, repl,
               erased, mdNode, result, diag>>

visitVars == <<kobj, vPc, tasks, FieldCheckerInvalid, UnionCheckerInvalid,
               UnionCount, CollectionStack, attrRD, attrFD, CurOffset,
               ArrayBaseOffsets, StructDepth, ParamDescs, hlog, hdrTrace,
               reached, IsSIMDKernel, kernel_decl, kernel_body, KernelDecl,
               KernelNameInvalid, KernelFuncInvalid, SizeOfParams,
               SizeTrap, NullDeref, SizeWarned>>

markVars == <<SYCLCG, Decls, mPc, KernelSet, RecursiveSet, Frames, Visited,
              WorkList, KernelBody, Attrs, ToApply, collected, inserted,
              Diags>>

slmVars == <<KernelMD, UseLists, slmF, slmPc, slmFrames, slmRet>>

vars == <<buildVars, argsVars, lowerVars, visitVars, markVars, slmVars>>

\* What the actions of one specification leave alone.
nonArgsVars  == <<buildVars, lowerVars, visitVars, markVars, slmVars>>
nonLowerVars == <<buildVars, argsVars, visitVars, markVars, slmVars>>
nonVisitVars == <<buildVars, argsVars, lowerVars, markVars, slmVars>>
nonMarkVars  == <<buildVars, argsVars, lowerVars, visitVars, slmVars>>

nonSlmVars   == <<buildVars, argsVars, lowerVars, visitVars, markVars>>

\* getSLMSizeMDNode has not been called.
SLMIdle ==
  /\ KernelMD = {}
  /\ UseLists = <<>>
  /\ slmF = ""
  /\ slmPc = "idle"
  /\ slmFrames = <<>>
  /\ slmRet = <<>>

\* MarkDevice has not been entered.
MarkIdle ==
  /\ SYCLCG = <<>>
  /\ Decls = <<>>
  /\ mPc = "idle"
  /\ KernelSet = {}
  /\ RecursiveSet = {}
  /\ Frames = <<>>
  /\ Visited = {}
  /\ WorkList = <<>>
  /\ KernelBody = ""
  /\ Attrs = {}
  /\ ToApply = {}
  /\ collected = <<>>
  /\ inserted = <<>>
  /\ Diags = <<>>

(***************************************************************************)
(* Small helpers on sequences and strings.                                 *)
(***************************************************************************)
Range(s) == {s[i] : i \in 1..Len(s)}

Max(a, b) == IF a >= b THEN a ELSE b

StartsWith(s, p) == Len(s) >= Len(p) /\ SubSeq(s, 1, Len(p)) = p

DropPrefix(s, n) == SubSeq(s, n + 1, Len(s))

Digits == {"0", "1", "2", "3", "4", "5", "6", "7", "8", "9"}

DigitVal(c) ==
  CASE c = "0" -> 0 [] c = "1" -> 1 [] c = "2" -> 2 [] c = "3" -> 3
    [] c = "4" -> 4 [] c = "5" -> 5 [] c = "6" -> 6 [] c = "7" -> 7
    [] c = "8" -> 8 [] c = "9" -> 9

\* The i-th character of s, "" past its end.
CharAt(s, i) == IF i >= 1 /\ i <= Len(s) THEN SubSeq(s, i, i) ELSE ""

IsDigitAt(s, i) == CharAt(s, i) \in Digits

\* Number of leading decimal digits of s.
RECURSIVE NumDigits(_)
NumDigits(s) == IF IsDigitAt(s, 1) THEN 1 + NumDigits(Tail(s)) ELSE 0

\* Value of the decimal string s (all digits).
RECURSIVE DecVal(_)
DecVal(s) ==
  IF s = "" THEN 0
  ELSE 10 * DecVal(SubSeq(s, 1, Len(s) - 1)) + DigitVal(SubSeq(s, Len(s), Len(s)))

\* Fixed-width integers.  Every value of the model lies in -2^31..2^31-1; a
\* 32-bit unsigned value above 2^31-1 is carried as its two's complement
\* signed reading, so it tests as negative.
\* SExt: the signed value of the low w bits of v; ZExt: the unsigned one.
SExt(v, w) ==
  IF w >= 32 THEN v
  ELSE LET m == v % (2 ^ w) IN IF m >= 2 ^ (w - 1) THEN m - 2 ^ w ELSE m

ZExt(v, w) == IF w >= 32 THEN v ELSE v % (2 ^ w)

(***************************************************************************)
(* LowerESIMD.cpp: names and the rule table.                               *)
(***************************************************************************)
ESIMD_INTRIN_PREF0 == "_Z"
ESIMD_INTRIN_PREF1 == "__esimd_"
SPIRV_INTRIN_PREF  == "__spirv_"
SLM_BTI == 254

\* struct ArgRule {Kind; union Info I}: every rule constructor of the table
\* brace-initialises the first union member, the pair of int16_t
\* {CallArgNo, Conv}.
ArgRule(kind, n, conv) == [Kind |-> kind, CallArgNo |-> n, Conv |-> conv]

NONE  == 0
TO_I1 == 1
TO_SI == 2

l(N)   == ArgRule("SRC_CALL_ALL", N, 0)
t(N)   == ArgRule("SRC_TMPL_ARG", N, 0)
u(N)   == ArgRule("UNDEF", N, 0)
nbs(N) == ArgRule("NUM_BYTES", N, 0)
a(N)   == ArgRule("SRC_CALL_ARG", N, NONE)
ai1(N) == ArgRule("SRC_CALL_ARG", N, TO_I1)
aSI(N) == ArgRule("SRC_CALL_ARG", N, TO_SI)
c16(N) == ArgRule("CONST_INT16", N, 0)
c32(N) == ArgRule("CONST_INT32", N, 0)
c64(N) == ArgRule("CONST_INT64", N, 0)

\* struct NameRule {Kind; union {int CallArgNo; int TmplArgNo}}.
NameRule(kind, n) == [Kind |-> kind, No |-> n]
bo(N)  == NameRule("BIN_OP", N)
nk(N)  == NameRule("NUM_KIND", N)
noRule == NameRule("NO_RULE", 0)

Desc(spelling, rules, suffix) ==
  [GenXSpelling |-> spelling, ArgRules |-> rules, SuffixRule |-> suffix]

\* The 32-bit word a rule's union holds, read through the members that
\* overlay the int16_t pair (NRemArgs, TmplArgNo, ArgConst).  The table never
\* writes those members, so their value is the object representation of the
\* pair, which depends on the host byte order.
UnionWord(rule, h) ==
  IF h = "little"
    THEN ZExt(rule.CallArgNo, 16) + 65536 * SExt(rule.Conv, 16)
    ELSE 65536 * SExt(rule.CallArgNo, 16) + ZExt(rule.Conv, 16)

NRemArgs(rule, h)  == UnionWord(rule, h)
TmplArgNo(rule, h) == UnionWord(rule, h)
ArgConst(rule, h)  == UnionWord(rule, h)

IntrinTable ==
       ("rdregion" :> Desc("rdregion", <<a(0), t(3), t(4), t(5), a(1), t(6)>>, nk(-1)))
    @@ ("wrregion" :> Desc("wrregion", <<a(0), a(1), t(3), t(4), t(5), a(2), t(6), ai1(3)>>, nk(-1)))
    @@ ("vload" :> Desc("vload", <<l(0)>>, noRule))
    @@ ("vstore" :> Desc("vstore", <<a(1), a(0)>>, noRule))
    @@ ("flat_block_read_unaligned" :> Desc("svm.block.ld.unaligned", <<l(0)>>, noRule))
    @@ ("flat_block_write" :> Desc("svm.block.st", <<l(1)>>, noRule))
    @@ ("flat_read" :> Desc("svm.gather", <<ai1(2), a(1), a(0), u(-1)>>, noRule))
    @@ ("flat_read4" :> Desc("svm.gather4.scaled", <<ai1(1), t(2), c16(0), c64(0), a(0), u(-1)>>, noRule))
    @@ ("flat_write" :> Desc("svm.scatter", <<ai1(3), a(2), a(0), a(1)>>, noRule))
    @@ ("flat_write4" :> Desc("svm.scatter4.scaled", <<ai1(2), t(2), c16(0), c64(0), a(0), a(1)>>, noRule))
    @@ ("surf_read" :> Desc("gather.scaled2", <<t(3), c16(0), aSI(1), a(2), a(3)>>, noRule))
    @@ ("surf_write" :> Desc("scatter.scaled", <<ai1(0), t(3), c16(0), aSI(2), a(3), a(4), a(5)>>, noRule))
    @@ ("group_id_x" :> Desc("group.id.x", <<>>, noRule))
    @@ ("group_id_y" :> Desc("group.id.y", <<>>, noRule))
    @@ ("group_id_z" :> Desc("group.id.z", <<>>, noRule))
    @@ ("local_id" :> Desc("local.id", <<>>, noRule))
    @@ ("local_size" :> Desc("local.size", <<>>, noRule))
    @@ ("flat_atomic0" :> Desc("svm.atomic", <<ai1(1), a(0), u(-1)>>, bo(0)))
    @@ ("flat_atomic1" :> Desc("svm.atomic", <<ai1(2), a(0), a(1), u(-1)>>, bo(0)))
    @@ ("flat_atomic2" :> Desc("svm.atomic", <<ai1(3), a(0), a(1), a(2), u(-1)>>, bo(0)))
    @@ ("reduced_fmax" :> Desc("fmax", <<a(0), a(1)>>, noRule))
    @@ ("reduced_umax" :> Desc("umax", <<a(0), a(1)>>, noRule))
    @@ ("reduced_smax" :> Desc("smax", <<a(0), a(1)>>, noRule))
    @@ ("reduced_fmin" :> Desc("fmin", <<a(0), a(1)>>, noRule))
    @@ ("reduced_umin" :> Desc("umin", <<a(0), a(1)>>, noRule))
    @@ ("reduced_smin" :> Desc("smin", <<a(0), a(1)>>, noRule))
    @@ ("dp4" :> Desc("dp4", <<a(0), a(1)>>, noRule))
    @@ ("media_block_load" :> Desc("media.ld", <<a(0), aSI(1), a(2), a(3), a(4), a(5)>>, noRule))
    @@ ("media_block_store" :> Desc("media.st", <<a(0), aSI(1), a(2), a(3), a(4), a(5), a(6)>>, noRule))
    @@ ("slm_fence" :> Desc("fence", <<a(0)>>, noRule))
    @@ ("barrier" :> Desc("barrier", <<>>, noRule))
    @@ ("block_read" :> Desc("oword.ld.unaligned", <<c32(0), aSI(0), a(1)>>, noRule))
    @@ ("block_write" :> Desc("oword.st", <<aSI(0), a(1), a(2)>>, noRule))
    @@ ("slm_block_read" :> Desc("oword.ld.unaligned", <<c32(0), c32(SLM_BTI), a(0)>>, noRule))
    @@ ("slm_block_write" :> Desc("oword.st", <<c32(SLM_BTI), a(0), a(1)>>, noRule))
    @@ ("slm_read" :> Desc("gather.scaled", <<ai1(1), nbs(-1), c16(0), c32(SLM_BTI), c32(0), a(0), u(-1)>>, noRule))
    @@ ("slm_read4" :> Desc("gather4.scaled", <<ai1(1), t(2), c16(0), c32(SLM_BTI), c32(0), a(0), u(-1)>>, noRule))
    @@ ("slm_write" :> Desc("scatter.scaled", <<ai1(2), nbs(1), c16(0), c32(SLM_BTI), c32(0), a(0), a(1)>>, noRule))
    @@ ("slm_write4" :> Desc("scatter4.scaled", <<ai1(2), t(2), c16(0), c32(SLM_BTI), c32(0), a(0), a(1)>>, noRule))
    @@ ("slm_atomic0" :> Desc("dword.atomic", <<ai1(1), c32(SLM_BTI), a(0), u(-1)>>, bo(0)))
    @@ ("slm_atomic1" :> Desc("dword.atomic", <<ai1(2), c32(SLM_BTI), a(0), a(1), u(-1)>>, bo(0)))
    @@ ("slm_atomic2" :> Desc("dword.atomic", <<ai1(3), c32(SLM_BTI), a(0), a(1), a(2), u(-1)>>, bo(0)))
    @@ ("raw_sends_load" :> Desc("raw.sends2", <<a(0), a(1), ai1(2), a(3), a(4), a(5), a(6), a(7), a(8), a(9), a(10), a(11)>>, noRule))
    @@ ("raw_send_load" :> Desc("raw.send2", <<a(0), a(1), ai1(2), a(3), a(4), a(5), a(6), a(7), a(8), a(9)>>, noRule))
    @@ ("raw_sends_store" :> Desc("raw.sends2.noresult", <<a(0), a(1), ai1(2), a(3), a(4), a(5), a(6), a(7), a(8), a(9)>>, noRule))
    @@ ("raw_send_store" :> Desc("raw.send2.noresult", <<a(0), a(1), ai1(2), a(3), a(4), a(5), a(6), a(7)>>, noRule))
    @@ ("satf" :> Desc("sat", <<a(0)>>, noRule))
    @@ ("fptoui_sat" :> Desc("fptoui.sat", <<a(0)>>, noRule))
    @@ ("fptosi_sat" :> Desc("fptosi.sat", <<a(0)>>, noRule))
    @@ ("uutrunc_sat" :> Desc("uutrunc.sat", <<a(0)>>, noRule))
    @@ ("ustrunc_sat" :> Desc("ustrunc.sat", <<a(0)>>, noRule))
    @@ ("sutrunc_sat" :> Desc("sutrunc.sat", <<a(0)>>, noRule))
    @@ ("sstrunc_sat" :> Desc("sstrunc.sat", <<a(0)>>, noRule))
    @@ ("abs" :> Desc("abs", <<a(0)>>, nk(-1)))
    @@ ("ssshl" :> Desc("ssshl", <<a(0), a(1)>>, noRule))
    @@ ("sushl" :> Desc("sushl", <<a(0), a(1)>>, noRule))
    @@ ("usshl" :> Desc("usshl", <<a(0), a(1)>>, noRule))
    @@ ("uushl" :> Desc("uushl", <<a(0), a(1)>>, noRule))
    @@ ("ssshl_sat" :> Desc("ssshl.sat", <<a(0), a(1)>>, noRule))
    @@ ("sushl_sat" :> Desc("sushl.sat", <<a(0), a(1)>>, noRule))
    @@ ("usshl_sat" :> Desc("usshl.sat", <<a(0), a(1)>>, noRule))
    @@ ("uushl_sat" :> Desc("uushl.sat", <<a(0), a(1)>>, noRule))
    @@ ("rol" :> Desc("rol", <<a(0), a(1)>>, noRule))
    @@ ("ror" :> Desc("ror", <<a(0), a(1)>>, noRule))
    @@ ("umulh" :> Desc("umulh", <<a(0), a(1)>>, noRule))
    @@ ("smulh" :> Desc("smulh", <<a(0), a(1)>>, noRule))
    @@ ("frc" :> Desc("frc", <<a(0)>>, noRule))
    @@ ("fmax" :> Desc("fmax", <<a(0), a(1)>>, noRule))
    @@ ("umax" :> Desc("umax", <<a(0), a(1)>>, noRule))
    @@ ("smax" :> Desc("smax", <<a(0), a(1)>>, noRule))
    @@ ("lzd" :> Desc("lzd", <<a(0)>>, noRule))
    @@ ("fmin" :> Desc("fmin", <<a(0), a(1)>>, noRule))
    @@ ("umin" :> Desc("umin", <<a(0), a(1)>>, noRule))
    @@ ("smin" :> Desc("smin", <<a(0), a(1)>>, noRule))
    @@ ("bfrev" :> Desc("bfrev", <<a(0)>>, noRule))
    @@ ("cbit" :> Desc("cbit", <<a(0)>>, noRule))
    @@ ("bfins" :> Desc("bfi", <<a(0), a(1), a(2), a(3)>>, noRule))
    @@ ("bfext" :> Desc("sbfe", <<a(0), a(1), a(2)>>, noRule))
    @@ ("fbl" :> Desc("fbl", <<a(0)>>, noRule))
    @@ ("sfbh" :> Desc("sfbh", <<a(0)>>, noRule))
    @@ ("ufbh" :> Desc("ufbh", <<a(0)>>, noRule))
    @@ ("inv" :> Desc("inv", <<a(0)>>, noRule))
    @@ ("log" :> Desc("log", <<a(0)>>, noRule))
    @@ ("exp" :> Desc("exp", <<a(0)>>, noRule))
    @@ ("sqrt" :> Desc("sqrt", <<a(0)>>, noRule))
    @@ ("sqrt_ieee" :> Desc("ieee.sqrt", <<a(0)>>, noRule))
    @@ ("rsqrt" :> Desc("rsqrt", <<a(0)>>, noRule))
    @@ ("sin" :> Desc("sin", <<a(0)>>, noRule))
    @@ ("cos" :> Desc("cos", <<a(0)>>, noRule))
    @@ ("pow" :> Desc("pow", <<a(0), a(1)>>, noRule))
    @@ ("div_ieee" :> Desc("ieee.div", <<a(0), a(1)>>, noRule))
    @@ ("dp4a" :> Desc("dp4a", <<a(0), a(1), a(2)>>, noRule))
    @@ ("any" :> Desc("any", <<ai1(0)>>, noRule))
    @@ ("all" :> Desc("all", <<ai1(0)>>, noRule))


\* ESIMDIntrinDesc::getNumGenXArgs
getNumGenXArgs(desc, h) ==
  LET NRules == Len(desc.ArgRules) IN
  IF NRules = 0 THEN 0
  ELSE IF desc.ArgRules[NRules].Kind = "SRC_CALL_ALL"
       THEN NRemArgs(desc.ArgRules[NRules], h) + (NRules - 1)
       ELSE NRules

\* ESIMDIntrinDesc::isValid
isValid(desc) == desc.GenXSpelling # ""

\* What a failed assert(), cast<> or llvm_unreachable does: it aborts in a
\* build with assertions and is undefined behaviour without them.
Trap(withAsserts) == IF withAsserts THEN "abort" ELSE "ub"

(***************************************************************************)
(* LLVM types of the operands: [vec, elt], elt one of the element kinds.   *)
(***************************************************************************)
Ty(vec, elt) == [vec |-> vec, elt |-> elt]

EltBits(elt) ==
  CASE elt = "i1" -> 1 [] elt = "i8" -> 8 [] elt = "i16" -> 16
    [] elt = "i32" -> 32 [] elt = "i64" -> 64 [] elt = "float" -> 32
    [] elt = "double" -> 64 [] elt = "ptr" -> 64 [] elt = "void" -> 0

isFloatingPointTy(elt) == elt \in {"float", "double"}
isIntegerTy(elt) == elt \in {"i1", "i8", "i16", "i32", "i64"}

\* parsePrimitiveTypeString: the bit width of the named type, 0 for void and
\* -1 for the nullptr of an unknown string.
parsePrimitiveTypeString(TyStr) ==
  CASE TyStr = "bool" -> 1
    [] TyStr \in {"char", "unsigned char"} -> 8
    [] TyStr \in {"short", "unsigned short"} -> 16
    [] TyStr \in {"int", "unsigned int", "unsigned", "float"} -> 32
    [] TyStr \in {"unsigned long long", "long long", "double"} -> 64
    [] TyStr = "void" -> 0
    [] OTHER -> -1

(***************************************************************************)
(* The demangled tree of a callee name, as far as the pass reads it: the   *)
(* kind of the root, the base name and the template arguments.  A template *)
(* argument is an IntegerLiteral [k, ty, val], an EnumLiteral [k, val] or   *)
(* a type name.                                                            *)
(***************************************************************************)
IntLit(ty, v) == [k |-> "IntegerLiteral", ty |-> ty, val |-> v]
EnumLit(v)    == [k |-> "EnumLiteral", ty |-> "", val |-> v]
TypeArg       == [k |-> "NameType", ty |-> "", val |-> 0]

\* Length of the decimal spelling of v >= 0.
RECURSIVE NumDecDigits(_)
NumDecDigits(v) == IF v < 10 THEN 1 ELSE 1 + NumDecDigits(v \div 10)

\* parseTemplateArg: [st, val, bits]; val is the APInt's unsigned value.  The
\* APInt constructor asserts only that the decimal string is short enough for
\* the width and otherwise keeps the low bits.
parseTemplateArg(FE, N, withAsserts) ==
  IF ~FE.hasTmpl \/ N < 0 \/ N >= Len(FE.tmpl)
    THEN [st |-> Trap(withAsserts), val |-> 0, bits |-> 0]
  ELSE
    LET arg == FE.tmpl[N + 1] IN
    CASE arg.k = "IntegerLiteral" ->
           LET bits == IF arg.ty = "" THEN 32
                       ELSE parsePrimitiveTypeString(arg.ty)
           IN  IF bits < 1
                 THEN [st |-> "ub", val |-> 0, bits |-> 0]
               ELSE IF withAsserts /\ ((NumDecDigits(arg.val) - 1) * 64) \div 22 > bits
                 THEN [st |-> "abort", val |-> 0, bits |-> bits]
               ELSE [st |-> "ok", val |-> ZExt(arg.val, bits), bits |-> bits]
      [] arg.k = "EnumLiteral" ->
           [st |-> "ok", val |-> ZExt(arg.val, 32), bits |-> 32]
      [] OTHER -> [st |-> "abort", val |-> 0, bits |-> 0]

getSExtValue(ap) == SExt(ap.val, ap.bits)

\* The switch of getESIMDIntrinSuffix over the atomic operation.
BinOpSuffix(op) ==
  CASE op = 0 -> ".add"      [] op = 1 -> ".sub"      [] op = 2 -> ".inc"
    [] op = 3 -> ".dec"      [] op = 4 -> ".min"      [] op = 5 -> ".max"
    [] op = 6 -> ".xchg"     [] op = 7 -> ".cmpxchg"  [] op = 8 -> ".and"
    [] op = 9 -> ".or"       [] op = 10 -> ".xor"     [] op = 11 -> ".minsint"
    [] op = 12 -> ".maxsint" [] op = 16 -> ".fmax"    [] op = 17 -> ".fmin"
    [] op = 18 -> ".fcmpwr"  [] op = 255 -> ".predec"
    [] OTHER -> "?"

\* getESIMDIntrinSuffix: [st, suff].  FT is the callee's function type
\* [argTys, retTy].
getESIMDIntrinSuffix(FE, FT, Rule, withAsserts) ==
  CASE Rule.Kind = "BIN_OP" ->
         LET OpId == parseTemplateArg(FE, Rule.No, withAsserts) IN
         IF OpId.st # "ok" THEN [st |-> OpId.st, suff |-> ""]
         ELSE IF BinOpSuffix(getSExtValue(OpId)) = "?"
           THEN [st |-> Trap(withAsserts), suff |-> ""]
         ELSE [st |-> "ok", suff |-> BinOpSuffix(getSExtValue(OpId))]
    [] Rule.Kind = "NUM_KIND" ->
         IF Rule.No # -1 /\ (Rule.No < 0 \/ Rule.No >= Len(FT.argTys))
           THEN [st |-> Trap(withAsserts), suff |-> ""]
         ELSE
           LET T == IF Rule.No = -1 THEN FT.retTy ELSE FT.argTys[Rule.No + 1] IN
           IF withAsserts /\ ~(isFloatingPointTy(T.elt) \/ isIntegerTy(T.elt))
             THEN [st |-> "abort", suff |-> ""]
           ELSE [st |-> "ok",
                 suff |-> IF isFloatingPointTy(T.elt) THEN "f" ELSE "i"]
    [] OTHER -> [st |-> "ok", suff |-> ""]

\* One rule of createESIMDIntrinsicArgs: [st, vals, last], the values it
\* appends to GenXArgs and the new LastCppArgNo.
OneArgRule(Rule, CI, FE, LastCppArgNo, h, withAsserts) ==
  LET NumArgs == Len(CI.argTys)
      InRange(n) == n >= 0 /\ n < NumArgs
      No == Rule.CallArgNo
      bad(s) == [st |-> s, vals |-> <<>>, last |-> LastCppArgNo]
      good(v, nl) == [st |-> "ok", vals |-> v, last |-> nl]
  IN
  CASE Rule.Kind = "SRC_CALL_ARG" ->
         IF ~InRange(No) THEN bad(Trap(withAsserts))
         ELSE
           LET T == CI.argTys[No + 1] IN
           CASE Rule.Conv = NONE ->
                  good(<<[k |-> "arg", n |-> No]>>, ZExt(No, 32))
             [] Rule.Conv = TO_I1 ->
                  IF ~isIntegerTy(T.elt) THEN bad(Trap(withAsserts))
                  ELSE good(<<[k |-> "icmp_ne_zero", n |-> No]>>, ZExt(No, 32))
             [] Rule.Conv = TO_SI ->
                  IF T.elt # "ptr" THEN bad(Trap(withAsserts))
                  ELSE good(<<[k |-> "ptrtoint32", n |-> No]>>, ZExt(No, 32))
             [] OTHER -> bad(Trap(withAsserts))
    [] Rule.Kind = "SRC_CALL_ALL" ->
         IF withAsserts /\ ~(LastCppArgNo < NumArgs) THEN bad("abort")
         ELSE good([i \in 1..Max(NumArgs - LastCppArgNo, 0) |->
                      [k |-> "arg", n |-> LastCppArgNo + i - 1]],
                   LastCppArgNo)
    [] Rule.Kind = "SRC_TMPL_ARG" ->
         LET Val == parseTemplateArg(FE, TmplArgNo(Rule, h), withAsserts) IN
         IF Val.st # "ok" THEN bad(Val.st)
         ELSE good(<<[k |-> "const", bits |-> Val.bits,
                      n |-> getSExtValue(Val)]>>, LastCppArgNo)
    [] Rule.Kind = "NUM_BYTES" ->
         IF No # -1 /\ ~InRange(No) THEN bad(Trap(withAsserts))
         ELSE
           LET T == IF No = -1 THEN CI.retTy ELSE CI.argTys[No + 1]
               NBits == EltBits(T.elt)
           IN  IF ~T.vec THEN bad(Trap(withAsserts))
               ELSE IF withAsserts /\ NBits \notin {8, 16, 32} THEN bad("abort")
               ELSE good(<<[k |-> "const", bits |-> 32, n |-> NBits \div 16]>>,
                         LastCppArgNo)
    [] Rule.Kind = "UNDEF" ->
         IF No # -1 /\ ~InRange(No) THEN bad(Trap(withAsserts))
         ELSE good(<<[k |-> "undef", n |-> No]>>, LastCppArgNo)
    [] Rule.Kind = "CONST_INT16" ->
         good(<<[k |-> "const", bits |-> 16, n |-> ZExt(ArgConst(Rule, h), 16)]>>,
              LastCppArgNo)
    [] Rule.Kind = "CONST_INT32" ->
         good(<<[k |-> "const", bits |-> 32, n |-> ArgConst(Rule, h)]>>,
              LastCppArgNo)
    [] Rule.Kind = "CONST_INT64" ->
         good(<<[k |-> "const", bits |-> 64, n |-> ArgConst(Rule, h)]>>,
              LastCppArgNo)
    [] OTHER -> bad("abort")

\* createESIMDIntrinsicArgs: the loop over Desc.ArgRules from rule I on, with
\* GenXArgs built so far; [st, args].
RECURSIVE ArgsFrom(_, _, _, _, _, _, _, _)
ArgsFrom(Desc0, I, GenXArgs, LastCppArgNo, CI, FE, h, withAsserts) ==
  IF I > Len(Desc0.ArgRules) THEN [st |-> "ok", args |-> GenXArgs]
  ELSE
    LET r == OneArgRule(Desc0.ArgRules[I], CI, FE, LastCppArgNo, h, withAsserts)
    IN  IF r.st # "ok" THEN [st |-> r.st, args |-> GenXArgs]
        ELSE ArgsFrom(Desc0, I + 1, GenXArgs \o r.vals, r.last, CI, FE, h,
                      withAsserts)

createESIMDIntrinsicArgs(Desc0, CI, FE, h, withAsserts) ==
  ArgsFrom(Desc0, 1, <<>>, 0, CI, FE, h, withAsserts)


(***************************************************************************)
(* The Itanium demangler on the names the front end produces for           *)
(* intrinsics: _Z <length> <identifier> [I <template args> E] <parameter   *)
(* types>.  Demangle returns the tree the pass reads,                       *)
(* [ok, kind, base, hasTmpl, tmpl].                                        *)
(***************************************************************************)
TypeChars == {"v", "b", "c", "h", "s", "t", "i", "j", "x", "y", "f", "d"}

\* The type string the demangler gives an integer literal of builtin type c.
LiteralTypeName(c) ==
  CASE c = "c" -> "char" [] c = "h" -> "unsigned char" [] c = "s" -> "short"
    [] c = "t" -> "unsigned short" [] c = "i" -> ""
    [] c = "j" -> "u" [] c = "x" -> "ll" [] c = "y" -> "ull"
    [] OTHER -> "?"

NoParse == [ok |-> FALSE, nodes |-> <<>>, rest |-> ""]

\* <number> E at the head of s, as an enumeration literal or as an integer
\* literal of type ty.
NumberThenE(s, isEnum, ty) ==
  LET nd == NumDigits(s) IN
  IF nd = 0 \/ CharAt(s, nd + 1) # "E" THEN NoParse
  ELSE [ok |-> TRUE,
        nodes |-> <<IF isEnum THEN EnumLit(DecVal(SubSeq(s, 1, nd)))
                    ELSE IntLit(ty, DecVal(SubSeq(s, 1, nd)))>>,
        rest |-> DropPrefix(s, nd + 1)]

\* One template argument at the head of s.
ParseTemplateArg(s) ==
  LET c  == CharAt(s, 1)
      c2 == CharAt(s, 2)
  IN
  IF c = "L" THEN
    IF LiteralTypeName(c2) # "?" THEN NumberThenE(DropPrefix(s, 2), FALSE, LiteralTypeName(c2))
    ELSE IF c2 \in Digits THEN
      \* L <source-name of an enumeration> <number> E
      LET s1 == DropPrefix(s, 1)
          nd == NumDigits(s1)
          n  == DecVal(SubSeq(s1, 1, nd))
      IN  IF Len(s1) < nd + n THEN NoParse
          ELSE NumberThenE(DropPrefix(s1, nd + n), TRUE, "")
    ELSE NoParse
  ELSE IF c \in TypeChars
    THEN [ok |-> TRUE, nodes |-> <<TypeArg>>, rest |-> Tail(s)]
  ELSE NoParse

\* The template arguments up to the closing E.
RECURSIVE ParseTemplateArgs(_, _)
ParseTemplateArgs(s, acc) ==
  IF s = "" THEN NoParse
  ELSE IF CharAt(s, 1) = "E"
    THEN [ok |-> acc # <<>>, nodes |-> acc, rest |-> Tail(s)]
  ELSE
    LET one == ParseTemplateArg(s) IN
    IF ~one.ok THEN NoParse ELSE ParseTemplateArgs(one.rest, acc \o one.nodes)

RECURSIVE AllTypeChars(_)
AllTypeChars(s) ==
  s = "" \/ (CharAt(s, 1) \in TypeChars /\ AllTypeChars(Tail(s)))

NoAST == [ok |-> FALSE, kind |-> "", base |-> "", hasTmpl |-> FALSE, tmpl |-> <<>>]

Demangle(MnglName) ==
  IF ~StartsWith(MnglName, "_Z") THEN NoAST
  ELSE
    LET s1 == DropPrefix(MnglName, 2)
        nd == NumDigits(s1)
        n  == DecVal(SubSeq(s1, 1, nd))
        s2 == DropPrefix(s1, nd)
    IN
    IF nd = 0 \/ n = 0 \/ Len(s2) < n THEN NoAST
    ELSE
      LET base == SubSeq(s2, 1, n)
          s3   == DropPrefix(s2, n)
          ta   == IF StartsWith(s3, "I")
                    THEN ParseTemplateArgs(DropPrefix(s3, 1), <<>>)
                    ELSE [ok |-> TRUE, nodes |-> <<>>, rest |-> s3]
      IN
      IF ~ta.ok \/ ~AllTypeChars(ta.rest) THEN NoAST
      ELSE [ok |-> TRUE,
            kind |-> IF ta.rest = "" THEN "Name" ELSE "FunctionEncoding",
            base |-> base,
            hasTmpl |-> StartsWith(s3, "I"),
            tmpl |-> ta.nodes]


(***************************************************************************)
(* Rule evaluation on one source call: the suffix and the arguments that   *)
(* translateESIMDIntrinsicCall builds for table entry aKey and call aCall. *)
(***************************************************************************)
Hosts == {"little", "big"}

ElemKinds == {"i8", "i16", "i32", "i64", "float"}

\* Largest operand number the rules of desc name, -1 if none.
RECURSIVE MaxCallArgNo(_, _)
MaxCallArgNo(rules, i) ==
  IF i > Len(rules) THEN -1
  ELSE LET rest == MaxCallArgNo(rules, i + 1)
           mine == IF rules[i].Kind \in {"SRC_CALL_ARG", "UNDEF", "NUM_BYTES"}
                     THEN rules[i].CallArgNo
                   ELSE IF rules[i].Kind = "SRC_CALL_ALL" THEN 0 ELSE -1
       IN  Max(mine, rest)

ExtraOperands == 1
MaxTmplArgs == 7

\* Atomic operation codes tried as template argument 0.
OpcodePool == (0..19) \cup {254, 255, 256}

\* Operand types of the modelled call: operand n of a TO_SI rule is a
\* pointer, every other operand a vector of elt.
OperandTypes(desc, nargs, elt) ==
  [i \in 1..nargs |->
     IF \E j \in 1..Len(desc.ArgRules) :
          /\ desc.ArgRules[j].Kind = "SRC_CALL_ARG"
          /\ desc.ArgRules[j].Conv = TO_SI
          /\ desc.ArgRules[j].CallArgNo = i - 1
       THEN Ty(FALSE, "ptr") ELSE Ty(TRUE, elt)]

\* The demangled callee of the modelled call: MaxTmplArgs template
\* arguments, the first one the literal lit0.
CalleeAST(key, lit0) ==
  [ok |-> TRUE, kind |-> "FunctionEncoding", base |-> ESIMD_INTRIN_PREF1 \o key,
   hasTmpl |-> TRUE,
   tmpl |-> [i \in 1..MaxTmplArgs |-> IF i = 1 THEN lit0 ELSE IntLit("", 8 * i)]]

FirstLiterals(desc) ==
  IF desc.SuffixRule.Kind = "BIN_OP"
    THEN {EnumLit(v) : v \in OpcodePool} \cup {IntLit("", 2), IntLit("unsigned char", 255)}
    ELSE {IntLit("", 16), TypeArg}

\* The calls of the modelled rule evaluation: any table entry, a call with
\* at least the operands its rules name and up to ExtraOperands more, and a
\* first template argument from FirstLiterals.
SourceCalls(key) ==
  { [argTys |-> OperandTypes(IntrinTable[key], nargs, elt),
     retTy  |-> Ty(TRUE, elt),
     FE     |-> CalleeAST(key, lit0)] :
      nargs \in (MaxCallArgNo(IntrinTable[key].ArgRules, 1) + 1)
                  ..(MaxCallArgNo(IntrinTable[key].ArgRules, 1) + 1 + ExtraOperands),
      elt \in ElemKinds, lit0 \in FirstLiterals(IntrinTable[key]) }

\* What a build without assertions may do at llvm_unreachable in the atomic
\* operation switch: any of the switch's arms, the empty suffix, or a crash.
UnreachableSuffixes == ({BinOpSuffix(op) : op \in OpcodePool} \ {"?"}) \cup {""}

\* getESIMDIntrinSuffix(FE, FTy, Desc.SuffixRule)
ArgsSuffix ==
  /\ aPc = "start"
  /\ \E r \in {getESIMDIntrinSuffix(aCall.FE, aCall, IntrinTable[aKey].SuffixRule, asserts)} :
         /\ r.st = "ok"
         /\ aSuffix' = r.suff
         /\ aPc' = "suffixed"
  /\ UNCHANGED <<aKey, aCall, aArgs, aNum>>
  /\ UNCHANGED nonArgsVars

ArgsSuffixAbort ==
  /\ aPc = "start"
  /\ getESIMDIntrinSuffix(aCall.FE, aCall, IntrinTable[aKey].SuffixRule, asserts).st = "abort"
  /\ aPc' = "suffix_abort"
  /\ UNCHANGED <<aKey, aCall, aArgs, aSuffix, aNum>>
  /\ UNCHANGED nonArgsVars

ArgsSuffixUB ==
  /\ aPc = "start"
  /\ getESIMDIntrinSuffix(aCall.FE, aCall, IntrinTable[aKey].SuffixRule, asserts).st = "ub"
  /\ \/ /\ aPc' = "suffix_crash"
        /\ UNCHANGED aSuffix
     \/ /\ aPc' = "suffixed"
        /\ aSuffix' \in UnreachableSuffixes
  /\ UNCHANGED <<aKey, aCall, aArgs, aNum>>
  /\ UNCHANGED nonArgsVars

\* createESIMDIntrinsicArgs(Desc, GenXArgs, CI, FE), with the count
\* getNumGenXArgs() gives for the same rule.
ArgsCreate ==
  /\ aPc = "suffixed"
  /\ \E r \in {createESIMDIntrinsicArgs(IntrinTable[aKey], aCall, aCall.FE, host, asserts)} :
         /\ aArgs' = r.args
         /\ aPc' = IF r.st = "ok" THEN "done" ELSE r.st
  /\ aNum' = getNumGenXArgs(IntrinTable[aKey], host)
  /\ UNCHANGED <<aKey, aCall, aSuffix>>
  /\ UNCHANGED nonArgsVars

ArgsNext ==
  \/ ArgsSuffix
  \/ ArgsSuffixAbort
  \/ ArgsSuffixUB
  \/ ArgsCreate


(***************************************************************************)
(* SYCLLowerESIMDPass::run on one function F.  An instruction is           *)
(* [op, callee, argTys, retTy, slm]: op is "call", a cast opcode or        *)
(* "other"; callee is "" for an indirect call; slm is the constant operand *)
(* of an slm_init call.                                                    *)
(***************************************************************************)
Inst(op, callee, argTys, retTy, slm) ==
  [op |-> op, callee |-> callee, argTys |-> argTys, retTy |-> retTy, slm |-> slm]

VecT(elt) == Ty(TRUE, elt)
ScalT(elt) == Ty(FALSE, elt)

Call(callee, argTys, retTy) == Inst("call", callee, argTys, retTy, 0)

SLM_INIT_NAME == "N2cl4sycl5INTEL3gpu8slm_init"

\* The vector type used by a genx_volatile global (collectGenXVolatileType).
VolatileTy == VecT("i64")

\* The instructions the modelled functions are built from.
InstPool ==
  { Call("_Z13__esimd_vloadIiLi8EEii", <<ScalT("ptr")>>, VecT("i32")),
    Call("_Z13__esimd_vloadIiLi8EEii", <<ScalT("ptr")>>, VolatileTy),
    Call("_Z14__esimd_vstoreIiLi8EEvii", <<ScalT("ptr"), VecT("i32")>>, ScalT("void")),
    Call("_Z20__esimd_flat_atomic0IL2Op2EiLi8EEiyt", <<VecT("i64"), VecT("i16")>>, VecT("i32")),
    Call("_Z20__esimd_flat_atomic0IL2Op13EiLi8EEiyt", <<VecT("i64"), VecT("i16")>>, VecT("i32")),
    Call("_Z13__esimd_bogusv", <<>>, ScalT("void")),
    Call("_Z17__esimd_pack_maskILi8EEjt", <<VecT("i16")>>, ScalT("i32")),
    Call("_Z19__esimd_unpack_maskILi8EEtj", <<ScalT("i32")>>, VecT("i16")),
    Call("_Z17__esimd_get_valueIiEjy", <<ScalT("ptr")>>, ScalT("i32")),
    Inst("call", "_ZN2cl4sycl5INTEL3gpu8slm_initEj", <<ScalT("i32")>>, ScalT("void"), 1024),
    Inst("call", "_ZN2cl4sycl5INTEL3gpu8slm_initEj", <<ScalT("i32")>>, ScalT("void"), 512),
    Call("_Z28__spirv_GlobalInvocationId_yv", <<>>, ScalT("i64")),
    Call("_Z3foov", <<>>, ScalT("void")),
    Inst("fptoui", "", <<VecT("float")>>, VecT("i16"), 0) }

MaxInsts == 2

\* The callee name as the scan sees it after consume_front("_Z") and
\* drop_while(isdigit); "-" when the name does not start with "_Z".
ScanName(callee) ==
  IF ~StartsWith(callee, ESIMD_INTRIN_PREF0) THEN "-"
  ELSE LET s == DropPrefix(callee, 2) IN DropPrefix(s, NumDigits(s))

\* The cast test at the head of the loop body of run().
IsLoweredCast(I) ==
  \/ I.op = "fptoui" /\ EltBits(I.retTy.elt) <= 32
  \/ I.op = "fptosi" /\ EltBits(I.retTy.elt) < 32

\* Mutant of translateVLoad: the genx_volatile types are not consulted.
translateVLoadAlways(CI, gvts) == TRUE

\* Mutant of Classify: the generic __esimd_ test comes before the special
\* cases.
ClassifyTableFirst(I, gvts) ==
  IF I.op # "call" \/ I.callee = "" THEN "continue"
  ELSE IF ScanName(I.callee) = "-" THEN "continue"
  ELSE IF StartsWith(ScanName(I.callee), ESIMD_INTRIN_PREF1) THEN "record"
  ELSE IF StartsWith(ScanName(I.callee), SLM_INIT_NAME) THEN "slm_init"
  ELSE IF StartsWith(ScanName(I.callee), SPIRV_INTRIN_PREF) THEN "spirv"
  ELSE "continue"

\* translateVLoad / translateVStore: FALSE when the type is one of the
\* genx_volatile types.
translateVLoad(CI, gvts)  == CI.retTy \notin gvts
translateVStore(CI, gvts) == CI.argTys[2] \notin gvts

\* The chain of tests of the loop body of run() on one instruction, in the
\* order of the source; the name of the branch taken.
Classify(I, gvts) ==
  LET Name == ScanName(I.callee) IN
  IF I.op # "call" \/ I.callee = "" THEN "continue"
  ELSE IF Name = "-" THEN "continue"
  ELSE IF StartsWith(Name, SLM_INIT_NAME) THEN "slm_init"
  ELSE IF StartsWith(Name, "__esimd_pack_mask") THEN "pack_mask"
  ELSE IF StartsWith(Name, "__esimd_unpack_mask") THEN "unpack_mask"
  ELSE IF StartsWith(Name, "__esimd_vload") /\ translateVLoad(I, gvts) THEN "vload"
  ELSE IF StartsWith(Name, "__esimd_vstore") /\ translateVStore(I, gvts) THEN "vstore"
  ELSE IF StartsWith(Name, "__esimd_get_value") THEN "get_value"
  ELSE IF StartsWith(Name, SPIRV_INTRIN_PREF) THEN "spirv"
  ELSE IF Name = "" \/ ~StartsWith(Name, ESIMD_INTRIN_PREF1) THEN "continue"
  ELSE "record"


\* The GenX instructions a SPIR-V query is rewritten to, in the order of
\* their creation; the last one replaces the call.  An instruction is its
\* opcode or intrinsic name, its type, its operands (positions in the list)
\* and, for an extractelement, the index.
SpirvNames ==
  <<"WorkgroupSize", "LocalInvocationId", "WorkgroupId", "GlobalInvocationId",
    "GlobalSize", "GlobalOffset", "NumWorkgroups">>

IRInst(op, ty, args, index) ==
  [op |-> op, ty |-> ty, args |-> args, index |-> index]

\* The list ins placed after k other instructions.
Shifted(ins, k) ==
  [i \in 1..Len(ins) |->
     [ins[i] EXCEPT !.args = [j \in 1..Len(@) |-> @[j] + k]]]

Join(xs, ys) == xs \o Shifted(ys, Len(xs))

addNoCast(OITy, ins) == ins

\* addCastInstIfNeeded(OldI, NewI), NewI being the last instruction of ins
\* and OITy the type of OldI.
addCastInstIfNeeded(OITy, ins) ==
  IF ins[Len(ins)].ty = OITy THEN ins
  ELSE Append(ins, IRInst(".cast.ty", OITy, <<Len(ins)>>, -1))

getIndexForSuffix(Suff) ==
  CASE Suff = "x" -> 0 [] Suff = "y" -> 1 [] Suff = "z" -> 2 [] OTHER -> -1

generateVectorGenXForSpirv(CI, Suff, IntrinName) ==
  addCastInstIfNeeded(CI.retTy,
    <<IRInst("genx." \o IntrinName, VecT("i32"), <<>>, -1),
      IRInst("extractelement", ScalT("i32"), <<1>>, getIndexForSuffix(Suff))>>)

generateGenXForSpirv(CI, Suff, IntrinName) ==
  addCastInstIfNeeded(CI.retTy,
    <<IRInst("genx." \o IntrinName \o Suff, ScalT("i32"), <<>>, -1)>>)

\* BinaryOperator::Create(op, x, y): x and y are the last instructions of
\* xs and of ys, and the result has the type of x.
BinaryOperator(op, xs, ys) ==
  Append(Join(xs, ys),
         IRInst(op, xs[Len(xs)].ty, <<Len(xs), Len(xs) + Len(ys)>>, -1))

SpirvRewrite(CI, SpvIName, Suff) ==
  CASE SpvIName = "WorkgroupSize" ->
         generateVectorGenXForSpirv(CI, Suff, "local.size.v3i32")
    [] SpvIName = "LocalInvocationId" ->
         generateVectorGenXForSpirv(CI, Suff, "local.id.v3i32")
    [] SpvIName = "WorkgroupId" ->
         generateGenXForSpirv(CI, Suff, "group.id.")
    [] SpvIName = "GlobalInvocationId" ->
         BinaryOperator("add",
           generateVectorGenXForSpirv(CI, Suff, "local.id.v3i32"),
           BinaryOperator("mul",
             generateVectorGenXForSpirv(CI, Suff, "local.size.v3i32"),
             generateGenXForSpirv(CI, Suff, "group.id.")))
    [] SpvIName = "GlobalSize" ->
         BinaryOperator("mul",
           generateVectorGenXForSpirv(CI, Suff, "local.size.v3i32"),
           generateVectorGenXForSpirv(CI, Suff, "group.count.v3i32"))
    [] SpvIName = "GlobalOffset" -> <<>>
    [] SpvIName = "NumWorkgroups" ->
         generateVectorGenXForSpirv(CI, Suff, "group.count.v3i32")

\* translateSpirvIntrinsic: the translateSpirvIntr calls from the i-th name
\* on, each trying consume_front on what the earlier ones left of the name;
\* the list of [name, suff] that matched.
RECURSIVE SpirvMatches(_, _)
SpirvMatches(SpirvIntrName, i) ==
  IF i > Len(SpirvNames) THEN <<>>
  ELSE IF StartsWith(SpirvIntrName, SpirvNames[i])
    THEN LET rest == DropPrefix(SpirvIntrName, Len(SpirvNames[i]))
         IN  <<[name |-> SpirvNames[i], suff |-> CharAt(rest, 2)]>>
               \o SpirvMatches(rest, i + 1)
  ELSE SpirvMatches(SpirvIntrName, i + 1)

\* A created instruction: its opcode or intrinsic name, the number of its
\* operands and the original instruction it was built for; for the
\* instructions of a SPIR-V rewrite also the type, the operands (positions
\* in created) and the extractelement index.
NewInst(op, nargs, from) ==
  [op |-> op, nargs |-> nargs, from |-> from,
   ty |-> ScalT("void"), args |-> <<>>, index |-> -1]

\* The instructions ins of a SPIR-V rewrite, inserted after base others.
PlaceInsts(ins, base, from) ==
  [i \in 1..Len(ins) |->
     [op |-> ins[i].op, nargs |-> Len(ins[i].args), from |-> from,
      ty |-> ins[i].ty,
      args |-> [j \in 1..Len(ins[i].args) |-> ins[i].args[j] + base],
      index |-> ins[i].index]]

NewInsts(ops, from) == [i \in 1..Len(ops) |-> NewInst(ops[i], 0, from)]

\* The instructions createESIMDIntrinsicArgs inserts before the call for the
\* converted operands.
RECURSIVE ConvInsts(_, _)
ConvInsts(args, from) ==
  IF args = <<>> THEN <<>>
  ELSE (IF Head(args).k \in {"icmp_ne_zero", "ptrtoint32"}
          THEN <<NewInst(Head(args).k, 1, from)>> ELSE <<>>)
       \o ConvInsts(Tail(args), from)

\* getIntrinDesc: the descriptor of the intrinsic SrcSpelling, or the fatal
\* error for a name that is not in the table.
getIntrinDesc(SrcSpelling) ==
  IF SrcSpelling \in DOMAIN IntrinTable
    THEN [found |-> TRUE, desc |-> IntrinTable[SrcSpelling]]
    ELSE [found |-> FALSE, desc |-> Desc("", <<>>, noRule)]

\* The part of the demangled base name after ESIMD_INTRIN_PREF1.
BaseNameOf(AST) ==
  IF AST.ok /\ Len(AST.base) >= Len(ESIMD_INTRIN_PREF1)
    THEN DropPrefix(AST.base, Len(ESIMD_INTRIN_PREF1)) ELSE ""

\* translateESIMDIntrinsicCall up to the construction of the new call, for
\* the demangled callee AST and the result D of getIntrinDesc:
\* [st, msg, name, args].  ubSuff is what a build without assertions does at
\* the unreachable default of the suffix switch.
Stopped(s, msg) == [st |-> s, msg |-> msg, name |-> "", args |-> <<>>]

TranslateCall(CI, AST, D, h, withAsserts, ubSuff) ==
  IF ~AST.ok THEN Stopped("fatal", "failed to demangle ESIMD intrinsic")
  ELSE IF AST.kind # "FunctionEncoding" THEN Stopped("fatal", "bad ESIMD intrinsic")
  ELSE IF Len(AST.base) < Len(ESIMD_INTRIN_PREF1) THEN Stopped("ub", "")
  ELSE IF ~D.found THEN Stopped("fatal", "unknown ESIMD intrinsic")
  ELSE IF ~isValid(D.desc) THEN Stopped("skip", "")
  ELSE
    LET sfx == getESIMDIntrinSuffix(AST, CI, D.desc.SuffixRule, withAsserts)
        ga == createESIMDIntrinsicArgs(D.desc, CI, AST, h, withAsserts)
    IN
    IF sfx.st = "abort" THEN Stopped("abort", "")
    ELSE IF sfx.st = "ub" /\ ubSuff = "crash" THEN Stopped("ub", "")
    ELSE IF ga.st # "ok" THEN Stopped(ga.st, "")
    ELSE [st |-> "ok", msg |-> "",
          name |-> "genx." \o D.desc.GenXSpelling
                     \o (IF sfx.st = "ub" THEN ubSuff ELSE sfx.suff),
          args |-> ga.args]

\* translatePackMask / translateUnPackMask up to the new instructions, for
\* the demangled callee AST and its template argument Val: [st, msg, ops].
MaskStopped(s, msg) == [st |-> s, msg |-> msg, ops |-> <<>>]

translateMask(CI, AST, Val, pack, withAsserts) ==
  IF ~AST.ok THEN MaskStopped("fatal", "failed to demangle ESIMD intrinsic")
  ELSE IF AST.kind # "FunctionEncoding" THEN MaskStopped("fatal", "bad ESIMD intrinsic")
  ELSE IF Val.st # "ok" THEN MaskStopped(Val.st, "")
  ELSE IF pack
    THEN [st |-> "ok", msg |-> "",
          ops |-> <<"trunc", "bitcast">>
                    \o (IF Val.val # 32 THEN <<"zext">> ELSE <<>>)]
  ELSE IF withAsserts /\ Len(CI.argTys) # 1 THEN MaskStopped("abort", "")
  ELSE IF withAsserts /\ EltBits(CI.argTys[1].elt) < Val.val
    THEN MaskStopped("abort", "")
  ELSE [st |-> "ok", msg |-> "",
        ops |-> (IF EltBits(CI.argTys[1].elt) > Val.val THEN <<"trunc">> ELSE <<>>)
                  \o <<"bitcast", "zext">>]


(***************************************************************************)
(* State of run(): pc is the position in run(), idx the loop index of the  *)
(* current loop.  created is the list of instructions built so far;        *)
(* repl[i] is what replaceAllUsesWith redirected instruction i to (an      *)
(* index into created, 0 for none, -1 for a constant); erased[i] counts    *)
(* the eraseFromParent calls on instruction i; mdNode holds operands 3 and *)
(* 4 of the kernel's genx.kernels node; diag is the message of             *)
(* report_fatal_error.                                                     *)
(***************************************************************************)
\* The functions run() is modelled on: marked sycl_explicit_simd or not,
\* 1..MaxInsts instructions of the pool.
Functions ==
  { [md |-> md, insts |-> insts] :
      md \in BOOLEAN, insts \in UNION {[1..n -> InstPool] : n \in 1..MaxInsts} }

\* if (F.getMetadata("sycl_explicit_simd") == nullptr) return all();
RunSkip ==
  /\ pc = "entry"
  /\ ~F.md
  /\ pc' = "done"
  /\ result' = "all"
  /\ UNCHANGED <<F, GVTS, idx, ESIMDIntrCalls, ESIMDToErases, created, repl,
                 erased, mdNode, diag>>
  /\ UNCHANGED nonLowerVars

RunBegin ==
  /\ pc = "entry"
  /\ F.md
  /\ pc' = "scan"
  /\ idx' = 1
  /\ UNCHANGED <<F, GVTS, ESIMDIntrCalls, ESIMDToErases, created, repl,
                 erased, mdNode, result, diag>>
  /\ UNCHANGED nonLowerVars

Scanning == pc = "scan" /\ idx <= Len(F.insts)

\* One special-case branch of the scan loop: the new instructions ops are
\* inserted, the uses of the instruction go to the last of them when rauw,
\* and the instruction is pushed on ESIMDToErases.
Rewrite(ops, rauw) ==
  /\ created' = created \o NewInsts(ops, idx)
  /\ repl' = IF rauw THEN [repl EXCEPT ![idx] = Len(created')] ELSE repl
  /\ ESIMDToErases' = Append(ESIMDToErases, idx)
  /\ idx' = idx + 1
  /\ UNCHANGED <<F, GVTS, pc, ESIMDIntrCalls, erased, result, diag>>
  /\ UNCHANGED nonLowerVars

\* A branch of run() that stops the compiler: report_fatal_error with msg,
\* or a failed assertion / undefined behaviour.
Stop(st, msg) ==
  /\ pc' = st
  /\ diag' = msg
  /\ UNCHANGED <<F, GVTS, idx, ESIMDIntrCalls, ESIMDToErases, created, repl,
                 erased, mdNode, result>>
  /\ UNCHANGED nonLowerVars

\* The FPToUI/FPToSI rewrite at the head of the loop body.
ScanCast ==
  /\ Scanning
  /\ IsLoweredCast(F.insts[idx])
  /\ IF F.insts[idx].retTy.vec
       THEN Rewrite(<<"fptosi", "trunc">>, TRUE) /\ UNCHANGED mdNode
       ELSE Stop(Trap(asserts), "") 

\* The two "continue" exits for an instruction that is no call of a named
\* function or whose name is of no interest.
ScanContinue ==
  /\ Scanning
  /\ ~IsLoweredCast(F.insts[idx])
  /\ Classify(F.insts[idx], GVTS) = "continue"
  /\ idx' = idx + 1
  /\ UNCHANGED <<F, GVTS, pc, ESIMDIntrCalls, ESIMDToErases, created, repl,
                 erased, mdNode, result, diag>>
  /\ UNCHANGED nonLowerVars

\* translateSLMInit(*CI); ESIMDToErases.push_back(CI);
ScanSLMInit ==
  /\ Scanning
  /\ Classify(F.insts[idx], GVTS) = "slm_init"
  /\ \E NewVal \in {F.insts[idx].slm}, OldVal \in {mdNode.ArgOffsets} :
         IF asserts /\ NewVal = 0 THEN Stop("abort", "")
         ELSE /\ mdNode' = IF OldVal < NewVal
                             THEN [mdNode EXCEPT !.SLMSize = NewVal] ELSE mdNode
              /\ Rewrite(<<>>, FALSE)

\* translatePackMask(*CI) / translateUnPackMask(*CI), then
\* ESIMDToErases.push_back(CI).
translateMaskStep(pack) ==
  \E AST \in {Demangle(F.insts[idx].callee)} :
    \E Val \in {parseTemplateArg(AST, 0, asserts)} :
      \E r \in {translateMask(F.insts[idx], AST, Val, pack, asserts)} :
        IF r.st = "ok" THEN Rewrite(r.ops, TRUE) /\ UNCHANGED mdNode
        ELSE Stop(r.st, r.msg)

ScanPackMask ==
  /\ Scanning
  /\ Classify(F.insts[idx], GVTS) = "pack_mask"
  /\ translateMaskStep(TRUE)

ScanUnPackMask ==
  /\ Scanning
  /\ Classify(F.insts[idx], GVTS) = "unpack_mask"
  /\ translateMaskStep(FALSE)

ScanVLoad ==
  /\ Scanning
  /\ Classify(F.insts[idx], GVTS) = "vload"
  /\ Rewrite(<<"load">>, TRUE)
  /\ UNCHANGED mdNode

ScanVStore ==
  /\ Scanning
  /\ Classify(F.insts[idx], GVTS) = "vstore"
  /\ Rewrite(<<"store">>, FALSE)
  /\ UNCHANGED mdNode

ScanGetValue ==
  /\ Scanning
  /\ Classify(F.insts[idx], GVTS) = "get_value"
  /\ IF asserts /\ F.insts[idx].argTys[1].elt # "ptr" THEN Stop("abort", "")
     ELSE Rewrite(<<"ptrtoint">>, TRUE) /\ UNCHANGED mdNode


RECURSIVE SpirvOps(_, _)
SpirvOps(CI, ms) ==
  IF ms = <<>> THEN <<>>
  ELSE Join(SpirvRewrite(CI, Head(ms).name, Head(ms).suff),
            SpirvOps(CI, Tail(ms)))

\* translateSpirvIntrinsic(CI, Name, ESIMDToErases): every matching name
\* rewrites the call and pushes it on ESIMDToErases.
ScanSpirv ==
  /\ Scanning
  /\ Classify(F.insts[idx], GVTS) = "spirv"
  /\ \E CI \in {F.insts[idx]} :
     \E ms \in {SpirvMatches(DropPrefix(ScanName(CI.callee), Len(SPIRV_INTRIN_PREF)), 1)} :
     \E ops \in {SpirvOps(CI, ms)} :
       IF \E i \in 1..Len(ms) :
            /\ ms[i].name # "GlobalOffset"
            /\ getIndexForSuffix(ms[i].suff) = -1
         THEN Stop(Trap(asserts), "")
       ELSE
         /\ created' = created \o PlaceInsts(ops, Len(created), idx)
         /\ repl' = IF ms = <<>> THEN repl
                    ELSE [repl EXCEPT ![idx] =
                            IF ms[Len(ms)].name = "GlobalOffset"
                              THEN -1 ELSE Len(created')]
         /\ ESIMDToErases' = ESIMDToErases \o [i \in 1..Len(ms) |-> idx]
         /\ idx' = idx + 1
         /\ UNCHANGED <<F, GVTS, pc, ESIMDIntrCalls, erased, mdNode, result, diag>>
         /\ UNCHANGED nonLowerVars

\* ESIMDIntrCalls.push_back(CI);
ScanRecord ==
  /\ Scanning
  /\ ~IsLoweredCast(F.insts[idx])
  /\ Classify(F.insts[idx], GVTS) = "record"
  /\ ESIMDIntrCalls' = Append(ESIMDIntrCalls, idx)
  /\ idx' = idx + 1
  /\ UNCHANGED <<F, GVTS, pc, ESIMDToErases, created, repl, erased, mdNode,
                 result, diag>>
  /\ UNCHANGED nonLowerVars

ScanEnd ==
  /\ pc = "scan"
  /\ idx > Len(F.insts)
  /\ pc' = "translate"
  /\ idx' = 1
  /\ UNCHANGED <<F, GVTS, ESIMDIntrCalls, ESIMDToErases, created, repl,
                 erased, mdNode, result, diag>>
  /\ UNCHANGED nonLowerVars

Translating == pc = "translate" /\ idx <= Len(ESIMDIntrCalls)

\* The outcomes a build may show at the unreachable default of the atomic
\* operation switch: a crash or any suffix.
UBSuffixes == UnreachableSuffixes \cup {"crash"}

\* translateESIMDIntrinsicCall(*CI) running to its end: the new call
\* (or the cast of it that addCastInstIfNeeded adds when the GenX
\* declaration, which is outside these sources, returns another type)
\* replaces CI and CI is erased; or the early return for an invalid
\* descriptor.
TranslateDone ==
  /\ Translating
  /\ \E ubSuff \in UBSuffixes, cast \in BOOLEAN, id \in {ESIMDIntrCalls[idx]} :
     \E AST \in {Demangle(F.insts[id].callee)} :
     \E D \in {getIntrinDesc(BaseNameOf(AST))} :
     \E r \in {TranslateCall(F.insts[id], AST, D, host, asserts, ubSuff)} :
     \E new \in {ConvInsts(r.args, id) \o <<NewInst(r.name, Len(r.args), id)>>
                   \o (IF cast THEN <<NewInst(".cast.ty", 1, id)>> ELSE <<>>)} :
       /\ r.st \in {"ok", "skip"}
       /\ IF r.st = "skip"
            THEN UNCHANGED <<created, repl, erased>>
            ELSE /\ created' = created \o new
                 /\ repl' = [repl EXCEPT ![id] = Len(created')]
                 /\ erased' = [erased EXCEPT ![id] = @ + 1]
  /\ idx' = idx + 1
  /\ UNCHANGED <<F, GVTS, pc, ESIMDIntrCalls, ESIMDToErases, mdNode, result, diag>>
  /\ UNCHANGED nonLowerVars

\* translateESIMDIntrinsicCall(*CI) ending in report_fatal_error, in a
\* failed assertion or in undefined behaviour.
TranslateStop ==
  /\ Translating
  /\ \E id \in {ESIMDIntrCalls[idx]} :
     \E AST \in {Demangle(F.insts[id].callee)} :
     \E D \in {getIntrinDesc(BaseNameOf(AST))} :
     \E r \in {TranslateCall(F.insts[id], AST, D, host, asserts, "crash")} :
       /\ r.st \in {"fatal", "abort", "ub"}
       /\ Stop(r.st, r.msg)

TranslateEnd ==
  /\ pc = "translate"
  /\ idx > Len(ESIMDIntrCalls)
  /\ pc' = "erase"
  /\ idx' = 1
  /\ UNCHANGED <<F, GVTS, ESIMDIntrCalls, ESIMDToErases, created, repl,
                 erased, mdNode, result, diag>>
  /\ UNCHANGED nonLowerVars

\* for (auto *CI : ESIMDToErases) CI->eraseFromParent();
EraseStep ==
  /\ pc = "erase"
  /\ idx <= Len(ESIMDToErases)
  /\ erased' = [erased EXCEPT ![ESIMDToErases[idx]] = @ + 1]
  /\ idx' = idx + 1
  /\ UNCHANGED <<F, GVTS, pc, ESIMDIntrCalls, ESIMDToErases, created, repl,
                 mdNode, result, diag>>
  /\ UNCHANGED nonLowerVars

\* return ESIMDIntrCalls.size() > 0 ? none() : all();
Return ==
  /\ pc = "erase"
  /\ idx > Len(ESIMDToErases)
  /\ pc' = "done"
  /\ result' = IF Len(ESIMDIntrCalls) > 0 THEN "none" ELSE "all"
  /\ UNCHANGED <<F, GVTS, idx, ESIMDIntrCalls, ESIMDToErases, created, repl,
                 erased, mdNode, diag>>
  /\ UNCHANGED nonLowerVars

LowerNext ==
  \/ RunSkip \/ RunBegin
  \/ ScanCast \/ ScanContinue \/ ScanSLMInit \/ ScanPackMask \/ ScanUnPackMask
  \/ ScanVLoad \/ ScanVStore \/ ScanGetValue \/ ScanSpirv \/ ScanRecord
  \/ ScanEnd
  \/ TranslateDone \/ TranslateStop \/ TranslateEnd
  \/ EraseStep \/ Return


(***************************************************************************)
(* The specifications.  Each one runs one part of the sources and holds    *)
(* the variables of the other parts at their idle values.                  *)
(***************************************************************************)
\* Rule evaluation: one table entry on one source call, in either build
\* flavour and on either host.
InitArgs ==
  /\ asserts \in BOOLEAN
  /\ host \in Hosts
  /\ aPc = "start"
  /\ aKey \in DOMAIN IntrinTable
  /\ aCall \in SourceCalls(aKey)
  /\ aArgs = <<>>
  /\ aSuffix = ""
  /\ aNum = -1
  /\ F = <<>>
  /\ GVTS = {}
  /\ pc = "idle"
  /\ idx = 0
  /\ ESIMDIntrCalls = <<>>
  /\ ESIMDToErases = <<>>
  /\ created = <<>>
  /\ repl = <<>>
  /\ erased = <<>>
  /\ mdNode = <<>>
  /\ result = ""
  /\ diag = ""
  /\ kobj = ""
  /\ vPc = "idle"
  /\ tasks = <<>>
  /\ FieldCheckerInvalid = FALSE
  /\ UnionCheckerInvalid = FALSE
  /\ UnionCount = 0
  /\ CollectionStack = <<>>
  /\ attrRD = {}
  /\ attrFD = {}
  /\ CurOffset = 0
  /\ ArrayBaseOffsets = <<>>
  /\ StructDepth = 0
  /\ ParamDescs = <<>>
  /\ hlog = <<>>
  /\ hdrTrace = <<>>
  /\ reached = <<>>
  /\ IsSIMDKernel = FALSE
  /\ KernelNameInvalid = FALSE
  /\ KernelFuncInvalid = FALSE
  /\ SizeOfParams = 0
  /\ SizeTrap = ""
  /\ NullDeref = ""
  /\ SizeWarned = FALSE
  /\ kernel_decl = <<>>
  /\ kernel_body = <<>>
  /\ KernelDecl = <<>>
  /\ MarkIdle
  /\ SLMIdle

SpecArgs == InitArgs /\ [][ArgsNext]_vars

\* run() on one function of a module whose genx_volatile globals use
\* VolatileTy and whose genx.kernels node for the function is fresh.
InitLower ==
  /\ asserts \in BOOLEAN
  /\ host \in Hosts
  /\ aPc = "idle"
  /\ aKey = ""
  /\ aCall = <<>>
  /\ aArgs = <<>>
  /\ aSuffix = ""
  /\ aNum = -1
  /\ F \in Functions
  /\ GVTS = {VolatileTy}
  /\ pc = "entry"
  /\ idx = 0
  /\ ESIMDIntrCalls = <<>>
  /\ ESIMDToErases = <<>>
  /\ created = <<>>
  /\ repl = [i \in 1..Len(F.insts) |-> 0]
  /\ erased = [i \in 1..Len(F.insts) |-> 0]
  /\ mdNode = [SLMSize |-> 0, ArgOffsets |-> 0]
  /\ result = ""
  /\ diag = ""
  /\ kobj = ""
  /\ vPc = "idle"
  /\ tasks = <<>>
  /\ FieldCheckerInvalid = FALSE
  /\ UnionCheckerInvalid = FALSE
  /\ UnionCount = 0
  /\ CollectionStack = <<>>
  /\ attrRD = {}
  /\ attrFD = {}
  /\ CurOffset = 0
  /\ ArrayBaseOffsets = <<>>
  /\ StructDepth = 0
  /\ ParamDescs = <<>>
  /\ hlog = <<>>
  /\ hdrTrace = <<>>
  /\ reached = <<>>
  /\ IsSIMDKernel = FALSE
  /\ KernelNameInvalid = FALSE
  /\ KernelFuncInvalid = FALSE
  /\ SizeOfParams = 0
  /\ SizeTrap = ""
  /\ NullDeref = ""
  /\ SizeWarned = FALSE
  /\ kernel_decl = <<>>
  /\ kernel_body = <<>>
  /\ KernelDecl = <<>>
  /\ MarkIdle
  /\ SLMIdle

SpecLower == InitLower /\ [][LowerNext]_vars


(***************************************************************************)
(* Properties of the lowering pass.                                        *)
(***************************************************************************)
\* A call of a named function whose name is _Z<digits>__esimd_<name>.
MatchesESIMDPattern(I) ==
  /\ I.op = "call"
  /\ StartsWith(I.callee, ESIMD_INTRIN_PREF0)
  /\ NumDigits(DropPrefix(I.callee, Len(ESIMD_INTRIN_PREF0))) >= 1
  /\ StartsWith(ScanName(I.callee), ESIMD_INTRIN_PREF1)

\* ... and whose <name> is a key of the rule table.
HasTableEntry(I) ==
  /\ MatchesESIMDPattern(I)
  /\ \E AST \in {Demangle(I.callee)} :
       AST.ok /\ BaseNameOf(AST) \in DOMAIN IntrinTable

IsGenXCall(new) == StartsWith(new.op, "genx.")

\* All uses of instruction id go to one genx call built for it, or to the
\* cast of that call.
RedirectedToGenX(id) ==
  /\ repl[id] > 0
  /\ created[repl[id]].from = id
  /\ \/ IsGenXCall(created[repl[id]])
     \/ /\ created[repl[id]].op = ".cast.ty"
        /\ repl[id] > 1
        /\ IsGenXCall(created[repl[id] - 1])
        /\ created[repl[id] - 1].from = id
  /\ Cardinality({k \in 1..Len(created) :
                    created[k].from = id /\ IsGenXCall(created[k])}) = 1

\* A vload/vstore call on a type that is not one of the genx_volatile types
\* has a plain load/store built for it, which takes over the uses of a
\* vload.
RewrittenToLoadStore(id) ==
  \/ /\ StartsWith(ScanName(F.insts[id].callee), "__esimd_vload")
     /\ F.insts[id].retTy \notin GVTS
     /\ repl[id] > 0
     /\ created[repl[id]] = NewInst("load", 0, id)
  \/ /\ StartsWith(ScanName(F.insts[id].callee), "__esimd_vstore")
     /\ F.insts[id].argTys[2] \notin GVTS
     /\ \E k \in 1..Len(created) : created[k] = NewInst("store", 0, id)

Finished == pc = "done" /\ F.md

\* C1 as stated: after run() on a sycl_explicit_simd function every call
\* named _Z<digits>__esimd_<name> with <name> in the rule table has its uses
\* redirected to one new genx call (or a cast of it) and is erased exactly
\* once, and no instruction is erased twice.
C1_AllTableCallsBecomeGenX ==
  Finished =>
    /\ \A id \in 1..Len(F.insts) :
         HasTableEntry(F.insts[id]) => RedirectedToGenX(id) /\ erased[id] = 1
    /\ \A id \in 1..Len(F.insts) : erased[id] <= 1

\* C1, amended: after run() on a sycl_explicit_simd function every such call
\* is erased exactly once and either has its uses redirected to one new genx
\* call (or a cast of it) or, being a vload/vstore on a type that is not
\* genx_volatile, is rewritten to a plain load/store; no instruction is
\* erased twice.
C1_TableCallsLowered ==
  Finished =>
    /\ \A id \in 1..Len(F.insts) :
         HasTableEntry(F.insts[id]) =>
           /\ erased[id] = 1
           /\ RedirectedToGenX(id) \/ RewrittenToLoadStore(id)
           /\ ~(RedirectedToGenX(id) /\ RewrittenToLoadStore(id))
    /\ \A id \in 1..Len(F.insts) : erased[id] <= 1

\* A finished run that lowered one table call to a genx call and another,
\* a vload of a non-volatile type, to a load.
C1_Witness ==
  /\ Finished
  /\ \E id \in 1..Len(F.insts) :
       HasTableEntry(F.insts[id]) /\ RedirectedToGenX(id) /\ erased[id] = 1
  /\ \E id \in 1..Len(F.insts) :
       HasTableEntry(F.insts[id]) /\ RewrittenToLoadStore(id) /\ erased[id] = 1

\* C2 as stated: a call that matches the __esimd_ pattern but whose base
\* name has no table entry is skipped silently: translating it raises no
\* fatal error, leaves the call alone and lets the lowering go on.
UnknownIntrinsic(I) ==
  /\ MatchesESIMDPattern(I)
  /\ \E AST \in {Demangle(I.callee)} :
       /\ AST.ok
       /\ AST.kind = "FunctionEncoding"
       /\ BaseNameOf(AST) \notin DOMAIN IntrinTable

C2_UnknownIntrinsicSkipped ==
  \A id \in 1..Len(repl) :
    (/\ pc \in {"translate", "fatal"}
     /\ idx <= Len(ESIMDIntrCalls)
     /\ ESIMDIntrCalls[idx] = id
     /\ UnknownIntrinsic(F.insts[id]))
    => pc # "fatal" /\ diag = "" /\ repl[id] = 0 /\ erased[id] = 0

\* C5: in the scan of run() a call of a special-cased pattern is rewritten
\* by its own rewrite, goes on ESIMDToErases and never on the table-driven
\* list ESIMDIntrCalls; no call is on both lists.
SpecialCased(I) ==
  /\ I.op = "call"
  /\ StartsWith(I.callee, ESIMD_INTRIN_PREF0)
  /\ \E Name \in {ScanName(I.callee)} :
       \/ StartsWith(Name, SLM_INIT_NAME)
       \/ StartsWith(Name, "__esimd_pack_mask")
       \/ StartsWith(Name, "__esimd_unpack_mask")
       \/ StartsWith(Name, "__esimd_get_value")
       \/ StartsWith(Name, "__esimd_vload") /\ I.retTy \notin GVTS
       \/ StartsWith(Name, "__esimd_vstore") /\ I.argTys[2] \notin GVTS
       \/ /\ StartsWith(Name, SPIRV_INTRIN_PREF)
          /\ \E i \in 1..Len(SpirvNames) :
               StartsWith(DropPrefix(Name, Len(SPIRV_INTRIN_PREF)), SpirvNames[i])

Scanned(id) ==
  \/ pc = "scan" /\ id < idx
  \/ pc \in {"translate", "erase", "done"} /\ F.md

C5_SpecialCasesBypassTable ==
  \A id \in 1..Len(repl) :
    /\ ~(id \in Range(ESIMDIntrCalls) /\ id \in Range(ESIMDToErases))
    /\ (Scanned(id) /\ SpecialCased(F.insts[id])) =>
         /\ id \in Range(ESIMDToErases)
         /\ id \notin Range(ESIMDIntrCalls)
    /\ (Scanned(id) /\ id \in Range(ESIMDIntrCalls)) =>
         MatchesESIMDPattern(F.insts[id]) /\ ~SpecialCased(F.insts[id])

\* A finished run in which one call went the special-case way and another
\* the table way.
C5_Witness ==
  /\ Finished
  /\ \E id \in 1..Len(F.insts) :
       SpecialCased(F.insts[id]) /\ id \in Range(ESIMDToErases) /\ erased[id] = 1
  /\ \E id \in 1..Len(F.insts) :
       id \in Range(ESIMDIntrCalls) /\ erased[id] = 1


(***************************************************************************)
(* Properties of the rule evaluation.                                      *)
(***************************************************************************)
\* C3 as stated: for every table entry and every source call it applies
\* to, createESIMDIntrinsicArgs appends as many arguments as
\* getNumGenXArgs() returns for the entry.
C3_ArgCountIsNumGenXArgs ==
  aPc = "done" => Len(aArgs) = aNum

\* The opcodes the atomic operation switch names.
DocumentedOpcodes == (0..12) \cup {16, 17, 18, 255}

\* The opcode the suffix rule of the entry reads from the callee's template
\* arguments.
OpcodeRead ==
  getSExtValue(parseTemplateArg(aCall.FE, IntrinTable[aKey].SuffixRule.No, asserts))

AfterBinOpSuffix ==
  /\ aPc \in {"suffixed", "suffix_abort", "suffix_crash"}
  /\ IntrinTable[aKey].SuffixRule.Kind = "BIN_OP"

\* C4 as stated: under the BIN_OP suffix rule every documented opcode gives
\* its one suffix, different opcodes give different suffixes, and any other
\* opcode ends in a fatal abort without a suffix.
C4_UndocumentedOpcodeAborts ==
  AfterBinOpSuffix =>
    \E op \in {OpcodeRead} :
      IF op \in DocumentedOpcodes
        THEN /\ aPc = "suffixed"
             /\ aSuffix = BinOpSuffix(op)
             /\ aSuffix # ""
             /\ \A other \in DocumentedOpcodes \ {op} : BinOpSuffix(other) # aSuffix
        ELSE aPc = "suffix_abort" /\ aSuffix = ""

(***************************************************************************)
(* SemaSYCL.cpp: the kernel-object visitor and its handlers.               *)
(*                                                                         *)
(* The AST the visitor walks.  A type is a record of the queries the       *)
(* visitor and the handlers make on it: its kind (the branch visitField    *)
(* takes), its size in bytes, its bases and fields with their byte         *)
(* offsets in the record layout, the element type and count of a constant  *)
(* array, whether copy constructor and destructor are trivial, and the     *)
(* access target and dimensions of an accessor.  Layouts are those of a    *)
(* 64-bit target.  Half, spec-constant and other-typed fields do not       *)
(* occur in the kernel objects below.                                      *)
(***************************************************************************)
M(ty, off) == [ty |-> ty, off |-> off]

LeafTy(k, sz) ==
  [kind |-> k, size |-> sz, bases |-> <<>>, fields |-> <<>>, elem |-> "",
   count |-> 0, trivial |-> TRUE, target |-> 0, dims |-> 0]

AccessorTy(sz, tgt, d) == [LeafTy("accessor", sz) EXCEPT !.target = tgt, !.dims = d]

RecordTy(k, sz, bs, fs, triv) ==
  [kind |-> k, size |-> sz, bases |-> bs, fields |-> fs, elem |-> "",
   count |-> 0, trivial |-> triv, target |-> 0, dims |-> 0]

ArrayTy(el, n, sz) ==
  [kind |-> "array", size |-> sz, bases |-> <<>>, fields |-> <<>>,
   elem |-> el, count |-> n, trivial |-> TRUE, target |-> 0, dims |-> 0]

DeclaredTypes ==
  [ int    |-> LeafTy("scalar", 4),
    ptr    |-> LeafTy("pointer", 8),
    ref    |-> LeafTy("reference", 8),
    smp    |-> LeafTy("sampler", 8),
    \* the parameter types of the init methods: a pointer to global memory,
    \* range<1> and the OpenCL sampler
    gptr      |-> LeafTy("pointer", 8),
    range     |-> LeafTy("scalar", 8),
    range2    |-> LeafTy("scalar", 16),
    range3    |-> LeafTy("scalar", 24),
    sampler_t |-> LeafTy("scalar", 8),
    acc    |-> AccessorTy(32, 2014, 1),
    stream |-> RecordTy("stream", 40, <<>>, <<M("int", 0), M("acc", 8)>>, TRUE),
    \* struct S { int x; int *p; }
    S      |-> RecordTy("struct", 16, <<>>, <<M("int", 0), M("ptr", 8)>>, TRUE),
    \* struct P { int x; int y; }
    P      |-> RecordTy("struct", 8, <<>>, <<M("int", 0), M("int", 4)>>, TRUE),
    \* struct NT { int x; NT(const NT &); }
    NT     |-> RecordTy("struct", 4, <<>>, <<M("int", 0)>>, FALSE),
    \* union U { S s2; int i; }     union UA { accessor a; int i; }
    U      |-> RecordTy("union", 16, <<>>, <<M("S", 0), M("int", 0)>>, TRUE),
    UA     |-> RecordTy("union", 32, <<>>, <<M("acc", 0), M("int", 0)>>, TRUE),
    \* union UR { S sa[2]; }
    UR     |-> RecordTy("union", 32, <<>>, <<M("SA2", 0)>>, TRUE),
    A4     |-> ArrayTy("int", 4, 16),
    SA2    |-> ArrayTy("S", 2, 32),
    PA2    |-> ArrayTy("P", 2, 16),
    PR     |-> ArrayTy("ptr", 2, 16),
    PM     |-> ArrayTy("PR", 2, 32),
    DA2    |-> ArrayTy("D", 2, 128),
    \* struct B1 { int b; }   struct B2 { int *q; }
    B1     |-> RecordTy("struct", 4, <<>>, <<M("int", 0)>>, TRUE),
    B2     |-> RecordTy("struct", 8, <<>>, <<M("ptr", 0)>>, TRUE),
    \* struct D : B1, B2 { accessor a; PR r; }
    D      |-> RecordTy("struct", 64, <<M("B1", 0), M("B2", 8)>>,
                        <<M("acc", 16), M("PR", 48)>>, TRUE),
    \* the kernel objects
    K10    |-> RecordTy("struct", 40, <<>>,
                        <<M("int", 0), M("int", 8), M("int", 16), M("A4", 20)>>,
                        TRUE),
    KU     |-> RecordTy("struct", 72, <<>>,
                        <<M("S", 0), M("U", 16), M("UR", 32), M("P", 64)>>,
                        TRUE),
    KA     |-> RecordTy("struct", 224, <<M("B2", 0)>>,
                        <<M("int", 8), M("SA2", 16), M("PM", 48), M("PA2", 80),
                          M("DA2", 96)>>, TRUE),
    KB     |-> RecordTy("struct", 184, <<M("B1", 0), M("B2", 8), M("acc", 16)>>,
                        <<M("stream", 48), M("D", 88), M("smp", 152),
                          M("P", 160), M("ptr", 168), M("U", 176)>>, TRUE),
    KX     |-> RecordTy("struct", 112, <<>>,
                        <<M("SA2", 0), M("NT", 32), M("S", 40), M("PR", 56),
                          M("ref", 72), M("UA", 80)>>, TRUE),
    KV     |-> RecordTy("struct", 72, <<M("stream", 0)>>,
                        <<M("UA", 40)>>, TRUE),
    \* an accessor and an int
    KI     |-> RecordTy("struct", 40, <<>>, <<M("acc", 0), M("int", 32)>>, TRUE),
    \* struct KS : stream { int x; }
    KS     |-> RecordTy("struct", 48, <<M("stream", 0)>>, <<M("int", 40)>>, TRUE),
    \* struct QR { int &r2; }   struct KR { int &r; QR q; }
    QR     |-> RecordTy("struct", 8, <<>>, <<M("ref", 0)>>, TRUE),
    KR     |-> RecordTy("struct", 16, <<>>, <<M("ref", 0), M("QR", 8)>>, TRUE),
    \* union UAS { accessor a; sampler s; }   struct KW { UAS u; int i; }
    UAS    |-> RecordTy("union", 32, <<>>, <<M("acc", 0), M("smp", 0)>>, TRUE),
    KW     |-> RecordTy("struct", 40, <<>>, <<M("UAS", 0), M("int", 32)>>, TRUE),
    \* struct KZ { int x; int z[0]; }
    Z0     |-> ArrayTy("int", 0, 0),
    KZ     |-> RecordTy("struct", 4, <<>>, <<M("int", 0), M("Z0", 4)>>, TRUE),
    \* struct KT { int big[512]; }   struct KT1 { int big[512]; int x; }
    A512   |-> ArrayTy("int", 512, 2048),
    KT     |-> RecordTy("struct", 2048, <<>>, <<M("A512", 0)>>, TRUE),
    KT1    |-> RecordTy("struct", 2052, <<>>, <<M("A512", 0), M("int", 2048)>>, TRUE),
    \* struct KT2 : stream { int big[503]; }
    A503   |-> ArrayTy("int", 503, 2012),
    KT2    |-> RecordTy("struct", 2052, <<M("stream", 0)>>, <<M("A503", 40)>>, TRUE) ]

\* enum target
target ==
  [global_buffer |-> 2014, constant_buffer |-> 2015, local |-> 2016,
   image |-> 2017, host_buffer |-> 2018, host_image |-> 2019,
   image_array |-> 2020]

TargetNames == <<"global_buffer", "constant_buffer", "local", "image",
                 "host_buffer", "host_image", "image_array">>

MaxDims == 3

DimNames == <<"1", "2", "3">>

\* accessor<int, Dims, mode, Target>, one specialization per target and
\* number of dimensions.
AccessorName(tg, d) == "acc_" \o tg \o "_" \o DimNames[d]

AccessorTypes ==
  [n \in {AccessorName(TargetNames[i], d) : i \in 1..Len(TargetNames), d \in 1..MaxDims} |->
     LET p == CHOOSE q \in (1..Len(TargetNames)) \X (1..MaxDims) :
                AccessorName(TargetNames[q[1]], q[2]) = n
     IN  AccessorTy(32, target[TargetNames[p[1]]], p[2])]

\* struct KD<d> { one accessor of d dimensions for each target }
AccessorKernelObjs ==
  [n \in {"KD" \o DimNames[d] : d \in 1..MaxDims} |->
     LET d == CHOOSE e \in 1..MaxDims : "KD" \o DimNames[e] = n
     IN  RecordTy("struct", 32 * Len(TargetNames), <<>>,
                  [i \in 1..Len(TargetNames) |->
                     M(AccessorName(TargetNames[i], d), 32 * (i - 1))], TRUE)]

TypeTable == DeclaredTypes @@ AccessorTypes @@ AccessorKernelObjs

KernelObjs == {"K10", "KU", "KA", "KB", "KX", "KV", "KI", "KS", "KR", "KW", "KZ",
               "KT", "KT1", "KT2"} \cup DOMAIN AccessorKernelObjs

\* A FieldDecl or a CXXBaseSpecifier: the n-th field or base of record rec.
FD(rec, n) == [isBase |-> FALSE, rec |-> rec, n |-> n]
BS(rec, n) == [isBase |-> TRUE, rec |-> rec, n |-> n]

kindOf(T) == TypeTable[T].kind

getTypeSizeInChars(T) == TypeTable[T].size

\* FD->getType() and ASTContext::getFieldOffset(FD) / 8.
getType(D) ==
  IF D.isBase THEN TypeTable[D.rec].bases[D.n].ty
  ELSE TypeTable[D.rec].fields[D.n].ty

getFieldOffset(D) == TypeTable[D.rec].fields[D.n].off

\* ASTRecordLayout::getBaseClassOffset
getBaseClassOffset(D) == TypeTable[D.rec].bases[D.n].off

InitMethodName      == "__init"
InitESIMDMethodName == "__init_esimd"
FinalizeMethodName  == "__finalize"
MaxKernelArgsSize   == 2048

\* The methods of the special classes that the handlers look up by name, each
\* with the types of its parameters.  The accessor is initialised from a
\* pointer and two ranges, and from the pointer alone in an ESIMD kernel; the
\* sampler and the stream class have no ESIMD initialiser.
AccessorMethods(d) ==
  (InitMethodName :> <<"gptr", <<"range", "range2", "range3">>[d],
                       <<"range", "range2", "range3">>[d]>>)
    @@ (InitESIMDMethodName :> <<"gptr">>)

MethodTable ==
  [ acc    |-> AccessorMethods(1),
    smp    |-> (InitMethodName :> <<"sampler_t">>),
    stream |-> (InitMethodName :> <<>>) @@ (FinalizeMethodName :> <<>>) ]
    @@ [n \in DOMAIN AccessorTypes |-> AccessorMethods(AccessorTypes[n].dims)]

\* getMethodByName: the method of that name, if the class declares one.
getMethodByName(T, MethodName) ==
  IF T \in DOMAIN MethodTable /\ MethodName \in DOMAIN MethodTable[T]
  THEN [found |-> TRUE, parameters |-> MethodTable[T][MethodName]]
  ELSE [found |-> FALSE, parameters |-> <<>>]

isPointerType(T) == T \in {"ptr", "gptr"}

\* The position of a subobject inside the kernel object: the bases ("b"),
\* fields ("f") and array elements ("e") that lead to it.
Step(tag, i) == <<tag, i>>

(***************************************************************************)
(* The handlers.  Their state is threaded through the visitor as one       *)
(* record; a call returns the new state and the handler's return value.    *)
(***************************************************************************)
HandlerIds == {"Empty", "FieldChecker", "UnionChecker", "DecompMarker",
               "ArgsSizeChecker", "kernel_decl", "kernel_body", "int_header"}

VisitUnionBody == [h \in HandlerIds |-> h = "UnionChecker"]

VisitNthArrayElement ==
  [h \in HandlerIds |-> h \notin {"FieldChecker", "UnionChecker", "DecompMarker"}]

VisitInsideSimpleContainers ==
  [h \in HandlerIds |->
     h \notin {"kernel_decl", "ArgsSizeChecker", "kernel_body", "int_header"}]

Not(B) == [h \in HandlerIds |-> ~B[h]]

HandlerFilter(Keep, Handlers) ==
  [i \in 1..Len(Handlers) |-> IF Keep[Handlers[i]] THEN Handlers[i] ELSE "Empty"]

AnyTrue(B, Handlers) == \E i \in 1..Len(Handlers) : B[Handlers[i]]

AllTrue(B, Handlers) == \A i \in 1..Len(Handlers) : B[Handlers[i]]

Ret(st, ret) == [st |-> st, ret |-> ret]

RECURSIVE checkNotCopyableToKernel(_)
checkNotCopyableToKernel(T) ==
  IF kindOf(T) = "array" THEN checkNotCopyableToKernel(TypeTable[T].elem)
  ELSE IF kindOf(T) \notin {"struct", "accessor", "sampler", "stream"} THEN FALSE
  ELSE ~TypeTable[T].trivial

\* Pointers to variable-length arrays do not occur in the kernel objects.
SyclKernelFieldChecker(ev, ar, st) ==
  CASE ev \in {"handleReferenceType", "handleOtherType"} ->
         Ret([st EXCEPT !.FieldCheckerInvalid = TRUE], FALSE)
    [] ev \in {"handleStructType", "handleArrayType"} ->
         Ret([st EXCEPT !.FieldCheckerInvalid = @ \/ checkNotCopyableToKernel(ar.Ty)],
             ~(st.FieldCheckerInvalid \/ checkNotCopyableToKernel(ar.Ty)))
    [] ev \in {"handleSyclAccessorType", "handlePointerType"} ->
         Ret(st, ~st.FieldCheckerInvalid)
    [] OTHER -> Ret(st, TRUE)

\* A union checker that rejects nothing: it never counts a union as entered.
SyclKernelUnionCheckerNoCount(ev, ar, st) ==
  Ret([st EXCEPT !.UnionCheckerInvalid = @ \/ st.UnionCount # 0],
      ~(st.UnionCheckerInvalid \/ st.UnionCount # 0))

SyclKernelUnionChecker(ev, ar, st) ==
  CASE ev = "enterUnion" -> Ret([st EXCEPT !.UnionCount = @ + 1], TRUE)
    [] ev = "leaveUnion" -> Ret([st EXCEPT !.UnionCount = @ - 1], TRUE)
    [] ev \in {"handleSyclAccessorType", "handleSyclSamplerType",
               "handleSyclStreamType"} ->
         Ret([st EXCEPT !.UnionCheckerInvalid = @ \/ st.UnionCount # 0],
             ~(st.UnionCheckerInvalid \/ st.UnionCount # 0))
    [] OTHER -> Ret(st, TRUE)

\* CollectionStack.back() = true
MarkBack(stack) == [stack EXCEPT ![Len(stack)] = TRUE]

PopBack(stack) == SubSeq(stack, 1, Len(stack) - 1)

\* A leave that annotates the declaration but does not set the entry of the
\* enclosing container.
MarkerLeaveNotUpward(st, isArray, ar) ==
  IF st.CollectionStack[Len(st.CollectionStack)]
  THEN [st EXCEPT !.CollectionStack = PopBack(@),
                  !.attrRD = IF isArray THEN @ ELSE @ \cup {ar.Ty},
                  !.attrFD = IF isArray THEN @ \cup {ar.Parent} ELSE @]
  ELSE [st EXCEPT !.CollectionStack = PopBack(@)]

\* leaveStruct/leaveArray of the marker: pop, and when the popped entry is
\* set, annotate the declaration and set the entry of the enclosing one.
MarkerLeave(st, isArray, ar) ==
  IF st.CollectionStack[Len(st.CollectionStack)]
  THEN [st EXCEPT !.CollectionStack = MarkBack(PopBack(@)),
                  !.attrRD = IF isArray THEN @ ELSE @ \cup {ar.Ty},
                  !.attrFD = IF isArray THEN @ \cup {ar.Parent} ELSE @]
  ELSE [st EXCEPT !.CollectionStack = PopBack(@)]

SyclKernelDecompMarker(ev, ar, st) ==
  CASE ev \in {"handleSyclAccessorType", "handleSyclSamplerType",
               "handleSyclSpecConstantType", "handleSyclStreamType",
               "handleSyclHalfType", "handlePointerType"} ->
         Ret([st EXCEPT !.CollectionStack = MarkBack(@)], TRUE)
    [] ev \in {"enterStream", "enterStruct", "enterArray"} ->
         Ret([st EXCEPT !.CollectionStack = Append(@, FALSE)], TRUE)
    [] ev = "leaveStream" ->
         Ret([st EXCEPT !.CollectionStack = PopBack(@)], TRUE)
    [] ev = "leaveStruct" -> Ret(MarkerLeave(st, FALSE, ar), TRUE)
    [] ev = "leaveArray" -> Ret(MarkerLeave(st, TRUE, ar), TRUE)
    [] OTHER -> Ret(st, TRUE)

\* SyclKernelIntHeaderCreator ------------------------------------------------
\* An isArrayElement that never recognises an element.
isArrayElementNever(D, T) == FALSE

isArrayElement(D, T) == getType(D) # T

\* offsetOf(FD, ArgTy) and offsetOf(RD, Base)
offsetOf(D, T) ==
  IF D.isBase THEN getBaseClassOffset(D)
  ELSE IF isArrayElement(D, T) THEN 0 ELSE getFieldOffset(D)

\* An addParamDesc that repeats the entry of an accessor for each of the
\* three parameters of its init method.
addParamDescPerInitParam(st, Kind, Info, OffsetAdj, path) ==
  LET e == [kind |-> Kind, info |-> Info, offset |-> st.CurOffset + OffsetAdj,
            path |-> path]
  IN  [st EXCEPT !.ParamDescs =
         IF Kind = "kind_accessor" THEN @ \o <<e, e, e>> ELSE Append(@, e)]

\* Header.addParamDesc(Kind, Info, CurOffset + OffsetAdj); the entry also
\* remembers which subobject of the kernel object it describes.
addParamDesc(st, Kind, Info, OffsetAdj, path) ==
  [st EXCEPT !.ParamDescs =
     Append(@, [kind |-> Kind, info |-> Info,
                offset |-> st.CurOffset + OffsetAdj, path |-> path])]

addParam(st, T, Kind, OffsetAdj, path) ==
  addParamDesc(st, Kind, getTypeSizeInChars(T), OffsetAdj, path)

\* x << n and x | y on non-negative values of an int that the shift does
\* not overflow
Shl(x, n) == x * 2^n

RECURSIVE BitOr(_, _)
BitOr(x, y) ==
  IF x = 0 THEN y
  ELSE IF y = 0 THEN x
  ELSE (IF x % 2 = 1 \/ y % 2 = 1 THEN 1 ELSE 0) + 2 * BitOr(x \div 2, y \div 2)

\* An info word with the dimensions one bit lower.
AccessorInfoShift10(T) == BitOr(TypeTable[T].target, Shl(TypeTable[T].dims, 10))

\* getAccessTarget(AccTy) | (Dims << 11)
AccessorInfo(T) == BitOr(TypeTable[T].target, Shl(TypeTable[T].dims, 11))

Traced(ev, ar, before, after) ==
  [after EXCEPT !.hdrTrace = Append(@, [ev |-> ev, path |-> ar.path,
                                        pre |-> before.CurOffset,
                                        post |-> after.CurOffset])]

\* enterStruct/enterStream and leaveStruct/leaveStream: the FieldDecl
\* overloads count StructDepth, the CXXBaseSpecifier overloads do not.
EnterOffset(st, ar) ==
  [st EXCEPT !.StructDepth = IF ar.Parent.isBase THEN @ ELSE @ + 1,
             !.CurOffset = @ + offsetOf(ar.Parent, ar.Ty)]

LeaveOffset(st, ar) ==
  [st EXCEPT !.StructDepth = IF ar.Parent.isBase THEN @ ELSE @ - 1,
             !.CurOffset = @ - offsetOf(ar.Parent, ar.Ty)]

enterArray(st, ar) ==
  [st EXCEPT !.ArrayBaseOffsets = Append(@, st.CurOffset + offsetOf(ar.Parent, ar.Ty))]

nextElement(st, ar) ==
  [st EXCEPT !.CurOffset = st.ArrayBaseOffsets[Len(st.ArrayBaseOffsets)]
                             + getTypeSizeInChars(ar.Ty) * ar.Index]

\* A leaveArray that forgets to take the field offset off again.
leaveArrayKeepsBase(st, ar) ==
  [st EXCEPT !.CurOffset = st.ArrayBaseOffsets[Len(st.ArrayBaseOffsets)],
             !.ArrayBaseOffsets = PopBack(@)]

leaveArray(st, ar) ==
  [st EXCEPT !.CurOffset = st.ArrayBaseOffsets[Len(st.ArrayBaseOffsets)]
                             - offsetOf(ar.Parent, ar.Ty),
             !.ArrayBaseOffsets = PopBack(@)]

SyclKernelIntHeaderCreator(ev, ar, st) ==
  CASE ev = "handleSyclAccessorType" ->
         Ret(addParamDesc(st, "kind_accessor", AccessorInfo(ar.Ty),
                          offsetOf(ar.Parent, ar.Ty), ar.path), TRUE)
    [] ev = "handleSyclSamplerType" ->
         Ret(addParam(st, "smp", "kind_sampler", offsetOf(ar.Parent, ar.Ty),
                      ar.path), TRUE)
    [] ev = "handlePointerType" ->
         Ret(addParam(st, ar.Ty,
                      IF st.StructDepth # 0 THEN "kind_std_layout"
                      ELSE "kind_pointer",
                      offsetOf(ar.Parent, ar.Ty), ar.path), TRUE)
    [] ev \in {"handleScalarType", "handleSimpleArrayType",
               "handleNonDecompStruct", "handleUnionType",
               "handleSyclHalfType"} ->
         Ret(addParam(st, ar.Ty, "kind_std_layout", offsetOf(ar.Parent, ar.Ty),
                      ar.path), TRUE)
    [] ev = "handleSyclStreamType" ->
         Ret(IF ar.Parent.isBase THEN st
             ELSE addParam(st, ar.Ty, "kind_std_layout",
                           offsetOf(ar.Parent, ar.Ty), ar.path), TRUE)
    [] ev \in {"enterStruct", "enterStream"} ->
         Ret(Traced(ev, ar, st, EnterOffset(st, ar)), TRUE)
    [] ev \in {"leaveStruct", "leaveStream"} ->
         Ret(Traced(ev, ar, st, LeaveOffset(st, ar)), TRUE)
    [] ev = "enterArray" -> Ret(Traced(ev, ar, st, enterArray(st, ar)), TRUE)
    [] ev = "nextElement" -> Ret(nextElement(st, ar), TRUE)
    [] ev = "leaveArray" -> Ret(Traced(ev, ar, st, leaveArray(st, ar)), TRUE)
    [] OTHER -> Ret(st, TRUE)


\* SyclKernelArgsSizeChecker --------------------------------------------------
RECURSIVE SizeOfTypes(_)
SizeOfTypes(ps) ==
  IF ps = <<>> THEN 0 ELSE getTypeSizeInChars(Head(ps)) + SizeOfTypes(Tail(ps))

\* SizeOfParams += getTypeSizeInChars(ArgTy)
addParamSize(st, T) == [st EXCEPT !.SizeOfParams = @ + getTypeSizeInChars(T)]

\* handleSpecialType of the size checker.  Without the init method the
\* assertion fails, or the null pointer is used.
handleSpecialTypeSize(st, T, simd) ==
  LET InitMethod == getMethodByName(T, IF simd THEN InitESIMDMethodName
                                       ELSE InitMethodName)
  IN  IF ~InitMethod.found
      THEN IF asserts THEN [st EXCEPT !.SizeTrap = "abort"]
           ELSE IF NullDeref = "crash" THEN [st EXCEPT !.SizeTrap = "crash"]
           ELSE st
      ELSE [st EXCEPT !.SizeOfParams = @ + SizeOfTypes(InitMethod.parameters)]

SyclKernelArgsSizeChecker(ev, ar, simd, st) ==
  CASE ev \in {"handleSyclAccessorType", "handleSyclSamplerType"} ->
         handleSpecialTypeSize(st, ar.Ty, simd)
    [] ev \in {"handlePointerType", "handleScalarType", "handleSimpleArrayType",
               "handleNonDecompStruct", "handleUnionType", "handleSyclHalfType",
               "handleSyclStreamType"} -> addParamSize(st, ar.Ty)
    [] OTHER -> st

\* SyclKernelDeclCreator ----------------------------------------------------
\* A ParmVarDecl: its type (wrapped: the one field of a __wrapper_class), the
\* index setScopeInfo gave it, its attributes, and the field or base it was
\* made for (makeParamDesc names it after that declaration).
ParmVarDecl(T, wrapped, index, path) ==
  [type |-> T, wrapped |-> wrapped, index |-> index, attrs |-> {}, path |-> path]

\* An addParam that numbers the parameters from one.
addParamDeclFromOne(kd, T, wrapped, path) ==
  [kd EXCEPT !.Params = Append(@, ParmVarDecl(T, wrapped, Len(kd.Params) + 1, path)),
             !.LastParamIndex = Len(kd.Params)]

\* addParam(ParamDesc, FieldTy)
addParamDecl(kd, T, wrapped, path) ==
  [kd EXCEPT !.Params = Append(@, ParmVarDecl(T, wrapped, Len(kd.Params), path)),
             !.LastParamIndex = Len(kd.Params)]

\* Params.back()->addAttr(...)
addAttrToBack(kd, attr) ==
  [kd EXCEPT !.Params[Len(kd.Params)].attrs = @ \cup {attr}]

\* The loop over InitMethod->parameters(), from parameter i on.  The
\* accessors of the kernel objects have no property list.
RECURSIVE InitMethodParams(_, _, _, _, _)
InitMethodParams(kd, ps, i, markPtr, path) ==
  IF i > Len(ps) THEN kd
  ELSE InitMethodParams(
         IF isPointerType(ps[i]) /\ markPtr
         THEN addAttrToBack(addParamDecl(kd, ps[i], FALSE, path), "SYCLSimdAccessorPtr")
         ELSE addParamDecl(kd, ps[i], FALSE, path),
         ps, i + 1, markPtr, path)

\* A handleSpecialType that leaves LastParamIndex at the last parameter.
handleSpecialTypeKeepsLast(kd, T, isAccessorType, isBase, simd, path) ==
  InitMethodParams(kd,
                   getMethodByName(T, IF simd /\ isAccessorType
                                      THEN InitESIMDMethodName
                                      ELSE InitMethodName).parameters,
                   1, isAccessorType /\ ~isBase /\ simd, path)

\* A handleSpecialType that makes one parameter for the whole object.
handleSpecialTypeOneParam(kd, T, isAccessorType, isBase, simd, path) ==
  addParamDecl(kd, T, FALSE, path)

\* handleSpecialType(FD, FieldTy, isAccessorType) and the base-class overload
\* of handleSyclAccessorType, which has the same loop.
handleSpecialTypeDecl(kd, T, isAccessorType, isBase, simd, path) ==
  LET MethodName == IF simd /\ isAccessorType THEN InitESIMDMethodName
                    ELSE InitMethodName
      InitMethod == getMethodByName(T, MethodName)
      ParamIndex == Len(kd.Params)
  IN  [InitMethodParams(kd, InitMethod.parameters, 1,
                        isAccessorType /\ ~isBase /\ simd, path)
         EXCEPT !.LastParamIndex = ParamIndex]

\* A handlePointerType that wraps every pointer that is not a plain field of
\* the kernel object.
handlePointerTypeWrapNested(kd, ar) ==
  addParamDecl(kd, ar.Ty, Len(ar.path) > 1, ar.path)

handlePointerTypeDecl(kd, ar) ==
  addParamDecl(kd, ar.Ty, kd.StructDepth # 0, ar.path)

\* getParamVarDeclsForCurrentField
getParamVarDeclsForCurrentField(kd) ==
  SubSeq(kd.Params, kd.LastParamIndex + 1, Len(kd.Params))

SyclKernelDeclCreator(ev, ar, simd, kd) ==
  CASE ev \in {"enterStruct", "enterStream"} -> [kd EXCEPT !.StructDepth = @ + 1]
    [] ev \in {"leaveStruct", "leaveStream"} -> [kd EXCEPT !.StructDepth = @ - 1]
    [] ev = "handleSyclAccessorType" ->
         handleSpecialTypeDecl(kd, ar.Ty, TRUE, ar.Parent.isBase, simd, ar.path)
    [] ev = "handleSyclSamplerType" ->
         handleSpecialTypeDecl(kd, ar.Ty, FALSE, FALSE, simd, ar.path)
    [] ev = "handlePointerType" -> handlePointerTypeDecl(kd, ar)
    [] ev = "handleSimpleArrayType" -> addParamDecl(kd, ar.Ty, TRUE, ar.path)
    [] ev \in {"handleScalarType", "handleNonDecompStruct", "handleUnionType",
               "handleSyclHalfType"} -> addParamDecl(kd, ar.Ty, FALSE, ar.path)
    [] ev = "handleSyclStreamType" ->
         IF ar.Parent.isBase THEN kd ELSE addParamDecl(kd, ar.Ty, FALSE, ar.path)
    [] OTHER -> kd

\* SyclKernelBodyCreator ----------------------------------------------------
\* An expression that names a subobject of the kernel object clone is kept
\* as the steps from the clone: member accesses, derived-to-base casts and
\* array subscripts.  Initialiser lists live in InitLists and are referred to
\* by their position in it.
KernelObjCloneRef == <<>>

\* InitializedEntity: a member, a base, or the element of an array that is
\* being worked on.
InitializedEntity(kind, D, index) == [kind |-> kind, D |-> D, index |-> index]

NoEntity == InitializedEntity("none", [isBase |-> FALSE, rec |-> "", n |-> 0], 0)

\* An initialiser in an initialiser list: a nested list, a copy of the
\* parameter with that index (unwrap: of the field of its __wrapper_class),
\* or a default initialisation.
InitExpr(kind, entity, param, unwrap, ile) ==
  [kind |-> kind, entity |-> entity, param |-> param, unwrap |-> unwrap,
   ile |-> ile]

\* A statement of the body: the declaration of the clone, a call of a method
\* of a subobject with parameters as arguments, or the transformed body of
\* the kernel caller.
Stmt(kind, object, method, args) ==
  [kind |-> kind, object |-> object, method |-> method, args |-> args]

Back(s) == s[Len(s)]

\* ParentILE->updateInit(Ctx, ParentILE->getNumInits(), Init)
updateInitAtEnd(kb, init) ==
  [kb EXCEPT !.InitLists[Back(kb.CollectionInitExprs)].inits = Append(@, init)]

\* createInitListExpr(InitTy, NumChildInits)
createInitListExpr(kb, T, NumChildInits) ==
  [kb EXCEPT !.InitLists = Append(@, [type |-> T, reserved |-> NumChildInits,
                                      inits |-> <<>>])]

NumInitExprs(T) == Len(TypeTable[T].fields) + Len(TypeTable[T].bases)

\* An addCollectionInitListExpr that makes the new list without giving it
\* to the enclosing one.
addCollectionInitListExprDetached(kb, T, NumChildInits) ==
  LET made == createInitListExpr(kb, T, NumChildInits)
  IN  [made EXCEPT !.CollectionInitExprs = Append(@, Len(made.InitLists))]

\* addCollectionInitListExpr(InitTy, NumChildInits)
addCollectionInitListExpr(kb, T, NumChildInits) ==
  LET made == createInitListExpr(kb, T, NumChildInits)
      ILE == Len(made.InitLists)
  IN  [updateInitAtEnd(made, InitExpr("list", NoEntity, 0, FALSE, ILE))
         EXCEPT !.CollectionInitExprs = Append(@, ILE)]

\* getFieldEntity
getFieldEntity(kb, D, T) ==
  IF isArrayElement(D, T)
  THEN InitializedEntity("element", Back(kb.ArrayInfos).entity.D,
                         Back(kb.ArrayInfos).index)
  ELSE InitializedEntity("member", D, 0)

\* addFieldInit(FD, Ty, ParamRef, InitKind, Entity)
addFieldInit(kb, init) == updateInitAtEnd(kb, init)

\* createParamReferenceExpr: the first parameter of the current field.
createParamReferenceExpr(kd) == kd.LastParamIndex

\* addSimpleFieldInit
addSimpleFieldInit(kb, kd, ar) ==
  addFieldInit(kb, InitExpr("copy", getFieldEntity(kb, ar.Parent, ar.Ty),
                            createParamReferenceExpr(kd), FALSE, 0))

\* addSimpleBaseInit
addSimpleBaseInit(kb, kd, ar) ==
  updateInitAtEnd(kb, InitExpr("copy", InitializedEntity("base", ar.Parent, 0),
                               createParamReferenceExpr(kd), FALSE, 0))

\* addFieldMemberExpr / removeFieldMemberExpr
addFieldMemberExpr(kb, D, T) ==
  IF ~isArrayElement(D, T)
  THEN [kb EXCEPT !.MemberExprBases = Append(@, Back(@) \o <<Step("f", D.n)>>)]
  ELSE kb

removeFieldMemberExpr(kb, D, T) ==
  IF ~isArrayElement(D, T)
  THEN [kb EXCEPT !.MemberExprBases = PopBack(@)]
  ELSE kb

\* createSpecialMethodCall(RD, MethodName, AddTo): the call, or nothing if
\* the class has no such method.
SpecialMethodCall(kb, kd, T, MethodName) ==
  LET Method == getMethodByName(T, MethodName)
  IN  IF ~Method.found THEN <<>>
      ELSE <<Stmt("call", Back(kb.MemberExprBases), MethodName,
                  [I \in 1..Len(Method.parameters) |-> kd.LastParamIndex + I - 1])>>

getInitMethodName(simd) == IF simd THEN InitESIMDMethodName ELSE InitMethodName

\* handleSpecialType(FD, Ty) and handleSpecialType(BS, Ty)
handleSpecialTypeBody(kb, kd, ar, simd) ==
  IF ar.Parent.isBase
  THEN [updateInitAtEnd(kb, InitExpr("default",
                                     InitializedEntity("base", ar.Parent, 0),
                                     0, FALSE, 0))
          EXCEPT !.BodyStmts =
            @ \o SpecialMethodCall(kb, kd, ar.Ty, getInitMethodName(simd))]
  ELSE LET inited == addFieldInit(kb, InitExpr("default",
                                    getFieldEntity(kb, ar.Parent, ar.Ty),
                                    0, FALSE, 0))
           based == addFieldMemberExpr(inited, ar.Parent, ar.Ty)
       IN  removeFieldMemberExpr(
             [based EXCEPT !.BodyStmts =
                @ \o SpecialMethodCall(based, kd, ar.Ty, getInitMethodName(simd))],
             ar.Parent, ar.Ty)

\* A handleSyclStreamType that copies a stream base from its parameter as it
\* does a stream field.
handleSyclStreamTypeBaseToo(kb, kd, ar) ==
  IF ar.Parent.isBase THEN addSimpleBaseInit(kb, kd, ar)
  ELSE addSimpleFieldInit(kb, kd, ar)

\* A handleSyclStreamType that makes the init call of a stream field at once,
\* as handleSpecialType does for an accessor.
handleSyclStreamTypeInitAtOnce(kb, kd, ar) ==
  IF ar.Parent.isBase THEN kb
  ELSE [addSimpleFieldInit(kb, kd, ar) EXCEPT !.BodyStmts =
          @ \o <<Stmt("call", Back(kb.MemberExprBases) \o <<Step("f", ar.Parent.n)>>,
                      InitMethodName, <<>>)>>]

\* handleSyclStreamType: a stream field is copied from its parameter, a
\* stream base gets no initialiser.
handleSyclStreamTypeBody(kb, kd, ar) ==
  IF ar.Parent.isBase THEN kb ELSE addSimpleFieldInit(kb, kd, ar)

\* A leaveStream that puts the __finalize call with the init calls.
leaveStreamFinalizeInBody(kb, kd, ar, simd) ==
  removeFieldMemberExpr(
    [kb EXCEPT !.StructDepth = @ - 1,
               !.BodyStmts = @ \o SpecialMethodCall(kb, kd, ar.Ty, getInitMethodName(simd))
                               \o SpecialMethodCall(kb, kd, ar.Ty, FinalizeMethodName),
               !.CollectionInitExprs = PopBack(@)],
    ar.Parent, ar.Ty)

leaveStream(kb, kd, ar, simd) ==
  removeFieldMemberExpr(
    [kb EXCEPT !.StructDepth = @ - 1,
               !.BodyStmts = @ \o SpecialMethodCall(kb, kd, ar.Ty, getInitMethodName(simd)),
               !.FinalizeStmts = @ \o SpecialMethodCall(kb, kd, ar.Ty, FinalizeMethodName),
               !.CollectionInitExprs = PopBack(@)],
    ar.Parent, ar.Ty)

enterStream(kb, ar) ==
  addFieldMemberExpr(
    [addCollectionInitListExprDetached(kb, ar.Ty, NumInitExprs(ar.Ty))
       EXCEPT !.StructDepth = @ + 1],
    ar.Parent, ar.Ty)

\* An enterStruct whose overload for a base does not count the base.
enterStructBaseNotCounted(kb, ar) ==
  IF ar.Parent.isBase
  THEN addCollectionInitListExpr(
         [kb EXCEPT !.MemberExprBases = Append(@, Back(@) \o <<Step("b", ar.Parent.n)>>)],
         ar.Ty, NumInitExprs(ar.Ty))
  ELSE addFieldMemberExpr(
         addCollectionInitListExpr([kb EXCEPT !.StructDepth = @ + 1],
                                   ar.Ty, NumInitExprs(ar.Ty)),
         ar.Parent, ar.Ty)

\* enterStruct, for a field and for a base
enterStructBody(kb, ar) ==
  IF ar.Parent.isBase
  THEN addCollectionInitListExpr(
         [kb EXCEPT !.StructDepth = @ + 1,
                    !.MemberExprBases = Append(@, Back(@) \o <<Step("b", ar.Parent.n)>>)],
         ar.Ty, NumInitExprs(ar.Ty))
  ELSE addFieldMemberExpr(
         addCollectionInitListExpr([kb EXCEPT !.StructDepth = @ + 1],
                                   ar.Ty, NumInitExprs(ar.Ty)),
         ar.Parent, ar.Ty)

\* A leaveStruct that leaves the initialiser list of the struct on the stack.
leaveStructKeepsList(kb, ar) ==
  IF ar.Parent.isBase
  THEN [kb EXCEPT !.StructDepth = @ - 1, !.MemberExprBases = PopBack(@)]
  ELSE removeFieldMemberExpr([kb EXCEPT !.StructDepth = @ - 1], ar.Parent, ar.Ty)

\* leaveStruct, for a field and for a base
leaveStructBody(kb, ar) ==
  IF ar.Parent.isBase
  THEN [kb EXCEPT !.StructDepth = @ - 1, !.MemberExprBases = PopBack(@),
                  !.CollectionInitExprs = PopBack(@)]
  ELSE removeFieldMemberExpr(
         [kb EXCEPT !.StructDepth = @ - 1, !.CollectionInitExprs = PopBack(@)],
         ar.Parent, ar.Ty)

enterArrayBody(kb, ar) ==
  addFieldMemberExpr(
    [addCollectionInitListExpr(kb, ar.Ty, TypeTable[ar.Ty].count)
       EXCEPT !.ArrayInfos =
         Append(@, [entity |-> getFieldEntity(kb, ar.Parent, ar.Ty), index |-> 0])],
    ar.Parent, ar.Ty)

nextElementBody(kb, ar) ==
  LET popped == IF ar.Index # 0 THEN PopBack(kb.MemberExprBases)
                ELSE kb.MemberExprBases
  IN  [kb EXCEPT !.ArrayInfos[Len(kb.ArrayInfos)].index = ar.Index,
                 !.MemberExprBases =
                   Append(popped, Back(popped) \o <<Step("e", ar.Index)>>)]

leaveArrayBody(kb, ar) ==
  removeFieldMemberExpr(
    [kb EXCEPT !.CollectionInitExprs = PopBack(@),
               !.ArrayInfos = PopBack(@),
               !.MemberExprBases = PopBack(@)],
    ar.Parent, ar.Ty)

handlePointerTypeBody(kb, kd, ar) ==
  addFieldInit(kb, InitExpr("copy", getFieldEntity(kb, ar.Parent, ar.Ty),
                            kd.LastParamIndex, kb.StructDepth # 0, 0))

handleSimpleArrayTypeBody(kb, kd, ar) ==
  addFieldInit(kb, InitExpr("copy", InitializedEntity("member", ar.Parent, 0),
                            kd.LastParamIndex, TRUE, 0))

\* The constructor: the initialiser list of the clone, the declaration of
\* the clone as first statement, the reference to the clone as first base.
NewSyclKernelBodyCreator(KernelObj) ==
  [BodyStmts |-> <<Stmt("DeclStmt", KernelObjCloneRef, "", <<>>)>>,
   CollectionInitExprs |-> <<1>>,
   FinalizeStmts |-> <<>>,
   ArrayInfos |-> <<>>,
   MemberExprBases |-> <<KernelObjCloneRef>>,
   StructDepth |-> 0,
   InitLists |-> <<[type |-> KernelObj, reserved |-> NumInitExprs(KernelObj),
                    inits |-> <<>>]>>]

\* A createKernelBody that puts the body of the kernel caller first.
createKernelBodyFirst(kb) ==
  <<Stmt("NewBody", KernelObjCloneRef, "", <<>>)>> \o kb.BodyStmts \o kb.FinalizeStmts

\* createKernelBody: the statements made during the walk, the transformed
\* body of the kernel caller, the finalize calls.
createKernelBody(kb) ==
  kb.BodyStmts \o <<Stmt("NewBody", KernelObjCloneRef, "", <<>>)>> \o kb.FinalizeStmts

\* kd is the declaration creator as the same notification left it.
SyclKernelBodyCreator(ev, ar, simd, kd, kb) ==
  CASE ev \in {"handleSyclAccessorType", "handleSyclSamplerType",
               "handleSyclSpecConstantType"} ->
         handleSpecialTypeBody(kb, kd, ar, simd)
    [] ev = "handleSyclStreamType" -> handleSyclStreamTypeBody(kb, kd, ar)
    [] ev \in {"handleSyclHalfType", "handleScalarType", "handleUnionType"} ->
         addSimpleFieldInit(kb, kd, ar)
    [] ev = "handleNonDecompStruct" ->
         IF ar.Parent.isBase THEN addSimpleBaseInit(kb, kd, ar)
         ELSE addSimpleFieldInit(kb, kd, ar)
    [] ev = "handlePointerType" -> handlePointerTypeBody(kb, kd, ar)
    [] ev = "handleSimpleArrayType" -> handleSimpleArrayTypeBody(kb, kd, ar)
    [] ev = "enterStream" -> enterStream(kb, ar)
    [] ev = "leaveStream" -> leaveStream(kb, kd, ar, simd)
    [] ev = "enterStruct" -> enterStructBody(kb, ar)
    [] ev = "leaveStruct" -> leaveStructBody(kb, ar)
    [] ev = "enterArray" -> enterArrayBody(kb, ar)
    [] ev = "nextElement" -> nextElementBody(kb, ar)
    [] ev = "leaveArray" -> leaveArrayBody(kb, ar)
    [] OTHER -> kb

\* One call of one handler.  GlobalEmptyHandler has no state and is not
\* logged; the size checker, the declaration creator and the body creator
\* answer every notification with true.
CallHandler(h, ev, ar, st) ==
  IF h = "Empty" THEN Ret(st, TRUE)
  ELSE LET logged == [st EXCEPT !.hlog[h] = Append(@, <<ev, ar.path>>)] IN
       CASE h = "FieldChecker" -> SyclKernelFieldChecker(ev, ar, logged)
         [] h = "UnionChecker" -> SyclKernelUnionChecker(ev, ar, logged)
         [] h = "DecompMarker" -> SyclKernelDecompMarker(ev, ar, logged)
         [] h = "int_header" -> SyclKernelIntHeaderCreator(ev, ar, logged)
         [] h = "kernel_decl" ->
              Ret([logged EXCEPT !.kernel_decl =
                     SyclKernelDeclCreator(ev, ar, IsSIMDKernel, @)], TRUE)
         [] h = "kernel_body" ->
              Ret([logged EXCEPT !.kernel_body =
                     SyclKernelBodyCreator(ev, ar, IsSIMDKernel,
                                           logged.kernel_decl, @)], TRUE)
         [] h = "ArgsSizeChecker" ->
              Ret(SyclKernelArgsSizeChecker(ev, ar, IsSIMDKernel, logged), TRUE)
         [] OTHER -> Ret(logged, TRUE)

\* (void)std::initializer_list<int>{(Handlers.f(...), 0)...}: every handler
\* of the pack is called, in order, whatever the others return.
RECURSIVE ForAll(_, _, _, _)
ForAll(Handlers, ev, ar, st) ==
  IF Handlers = <<>> THEN st
  ELSE ForAll(Tail(Handlers), ev, ar, CallHandler(Head(Handlers), ev, ar, st).st)

\* handleField: result = result && tn(FD, FDTy), so the handlers after the
\* first one that returns false are not called.
RECURSIVE handleField(_, _, _, _)
handleField(Handlers, ev, ar, st) ==
  IF Handlers = <<>> THEN Ret(st, TRUE)
  ELSE LET r == CallHandler(Head(Handlers), ev, ar, st) IN
       IF r.ret THEN handleField(Tail(Handlers), ev, ar, r.st) ELSE Ret(r.st, FALSE)

KF_FOR_EACH(Handlers, ev, ar, st) == handleField(Handlers, ev, ar, st)

(***************************************************************************)
(* KernelObjVisitor.  The recursion of the visitor is kept as the list of  *)
(* calls still to be made, innermost first; a call carries its arguments   *)
(* (Owner, the FieldDecl or base specifier, the type, the array index),    *)
(* its handler pack and the position of the subobject it is about.         *)
(***************************************************************************)
Task(op, Owner, Parent, T, path, Index, Handlers) ==
  [op |-> op, Owner |-> Owner, Parent |-> Parent, Ty |-> T, path |-> path,
   Index |-> Index, Handlers |-> Handlers]

Args(tk) == [Owner |-> tk.Owner, Parent |-> tk.Parent, Ty |-> tk.Ty,
            Index |-> tk.Index, path |-> tk.path]

HS ==
  [FieldCheckerInvalid |-> FieldCheckerInvalid,
   UnionCheckerInvalid |-> UnionCheckerInvalid, UnionCount |-> UnionCount,
   CollectionStack |-> CollectionStack, attrRD |-> attrRD, attrFD |-> attrFD,
   CurOffset |-> CurOffset, ArrayBaseOffsets |-> ArrayBaseOffsets,
   StructDepth |-> StructDepth, ParamDescs |-> ParamDescs, hlog |-> hlog,
   hdrTrace |-> hdrTrace, kernel_decl |-> kernel_decl,
   kernel_body |-> kernel_body, SizeOfParams |-> SizeOfParams,
   SizeTrap |-> SizeTrap]

SetHS(st) ==
  /\ FieldCheckerInvalid' = st.FieldCheckerInvalid
  /\ UnionCheckerInvalid' = st.UnionCheckerInvalid
  /\ UnionCount' = st.UnionCount
  /\ CollectionStack' = st.CollectionStack
  /\ attrRD' = st.attrRD
  /\ attrFD' = st.attrFD
  /\ CurOffset' = st.CurOffset
  /\ ArrayBaseOffsets' = st.ArrayBaseOffsets
  /\ StructDepth' = st.StructDepth
  /\ ParamDescs' = st.ParamDescs
  /\ hlog' = st.hlog
  /\ hdrTrace' = st.hdrTrace
  /\ kernel_decl' = st.kernel_decl
  /\ kernel_body' = st.kernel_body
  /\ SizeOfParams' = st.SizeOfParams
  /\ SizeTrap' = st.SizeTrap

Walking == vPc \in {"check", "size", "gen"} /\ tasks # <<>> /\ SizeTrap = ""

\* The call returns into its caller, after the calls it makes itself.
Continue(calls) ==
  /\ tasks' = calls \o Tail(tasks)
  /\ UNCHANGED <<kobj, vPc, IsSIMDKernel, KernelDecl, KernelNameInvalid,
                 KernelFuncInvalid, NullDeref, SizeWarned>>
  /\ UNCHANGED nonVisitVars

\* VisitRecordHelper over bases() and VisitRecordFields: one call per base
\* and per field, in declaration order.
VisitRecordBases(Owner, path, Handlers) ==
  [i \in 1..Len(TypeTable[Owner].bases) |->
     Task("VisitRecordHelper", Owner, BS(Owner, i), TypeTable[Owner].bases[i].ty,
          path \o <<Step("b", i)>>, 0, Handlers)]

VisitRecordFields(Owner, path, Handlers) ==
  [i \in 1..Len(TypeTable[Owner].fields) |->
     Task("visitField", Owner, FD(Owner, i), TypeTable[Owner].fields[i].ty,
          path \o <<Step("f", i)>>, 0, Handlers)]

\* The body of the loop over bases.
VisitRecordHelper ==
  /\ Walking
  /\ Head(tasks).op = "VisitRecordHelper"
  /\ \E tk \in {Head(tasks)} :
       IF kindOf(tk.Ty) \in {"accessor", "stream"}
       THEN /\ \E st \in {ForAll(tk.Handlers,
                                 IF kindOf(tk.Ty) = "accessor"
                                 THEN "handleSyclAccessorType"
                                 ELSE "handleSyclStreamType", Args(tk), HS)} :
                 SetHS(st)
            /\ Continue(<<>>)
            /\ UNCHANGED reached
       ELSE /\ Continue(<<[tk EXCEPT !.op = "visitRecord"]>>)
            /\ UNCHANGED <<FieldCheckerInvalid, UnionCheckerInvalid, UnionCount,
                           CollectionStack, attrRD, attrFD, CurOffset,
                           ArrayBaseOffsets, StructDepth, ParamDescs, hlog,
                           hdrTrace, reached, kernel_decl, kernel_body,
                           SizeOfParams, SizeTrap>>

\* The handler method visitField calls for a field of each kind; an array
\* field goes to visitArray without a call.
FieldHandler(k) ==
  CASE k = "accessor" -> "handleSyclAccessorType"
    [] k = "sampler" -> "handleSyclSamplerType"
    [] k = "stream" -> "handleSyclStreamType"
    [] k = "struct" -> "handleStructType"
    [] k = "union" -> "handleUnionType"
    [] k = "reference" -> "handleReferenceType"
    [] k = "pointer" -> "handlePointerType"
    [] k = "scalar" -> "handleScalarType"
    [] OTHER -> "handleOtherType"

visitField ==
  /\ Walking
  /\ Head(tasks).op = "visitField"
  /\ \E tk \in {Head(tasks)} : \E k \in {kindOf(tk.Ty)} :
     \E r \in {IF k = "array" THEN Ret(HS, TRUE)
               ELSE KF_FOR_EACH(tk.Handlers, FieldHandler(k), Args(tk), HS)} :
       /\ SetHS(r.st)
       /\ Continue(CASE k = "stream" -> <<[tk EXCEPT !.op = "visitStreamRecord"]>>
                     [] k = "struct" /\ r.ret -> <<[tk EXCEPT !.op = "visitRecord"]>>
                     [] k = "union" /\ r.ret -> <<[tk EXCEPT !.op = "VisitUnion"]>>
                     [] k = "array" -> <<[tk EXCEPT !.op = "visitArray"]>>
                     [] OTHER -> <<>>)
       /\ UNCHANGED reached

\* A visitRecord that makes both calls with the whole pack.
visitRecordBoth(annotated, Handlers) == [simple |-> Handlers, complex |-> Handlers]

\* Which handlers visitRecord gives to visitSimpleRecord and which to
\* visitComplexRecord; an empty pack stands for a call that is not made.
visitRecordDispatch(annotated, Handlers) ==
  IF annotated THEN [simple |-> <<>>, complex |-> Handlers]
  ELSE [simple |->
          IF ~AllTrue(VisitInsideSimpleContainers, Handlers)
          THEN HandlerFilter(Not(VisitInsideSimpleContainers), Handlers)
          ELSE <<>>,
        complex |->
          IF AnyTrue(VisitInsideSimpleContainers, Handlers)
          THEN HandlerFilter(VisitInsideSimpleContainers, Handlers)
          ELSE <<>>]

\* visitRecord, with visitSimpleRecord.
visitRecord ==
  /\ Walking
  /\ Head(tasks).op = "visitRecord"
  /\ \E tk \in {Head(tasks)} :
     \E d \in {visitRecordDispatch(tk.Ty \in attrRD, tk.Handlers)} :
     \E st \in {ForAll(d.simple, "handleNonDecompStruct", Args(tk), HS)} :
       /\ SetHS(st)
       /\ Continue(IF d.complex = <<>> THEN <<>>
                   ELSE <<[tk EXCEPT !.op = "visitComplexRecord",
                                    !.Handlers = d.complex]>>)
       /\ reached' = Append(reached, [path |-> tk.path, Ty |-> tk.Ty,
                                      annotated |-> tk.Ty \in attrRD,
                                      Handlers |-> tk.Handlers, pass |-> vPc])

\* A visitComplexRecord that returns without leaveStruct.
visitComplexRecordNoLeave(tk) ==
  VisitRecordBases(tk.Ty, tk.path, tk.Handlers)
    \o VisitRecordFields(tk.Ty, tk.path, tk.Handlers)

\* What visitComplexRecord does after enterStruct.
visitComplexRecordBody(tk) ==
  VisitRecordBases(tk.Ty, tk.path, tk.Handlers)
    \o VisitRecordFields(tk.Ty, tk.path, tk.Handlers)
    \o <<[tk EXCEPT !.op = "leaveStruct"]>>

visitComplexRecord ==
  /\ Walking
  /\ Head(tasks).op = "visitComplexRecord"
  /\ \E tk \in {Head(tasks)} :
     \E st \in {ForAll(tk.Handlers, "enterStruct", Args(tk), HS)} :
       /\ SetHS(st)
       /\ Continue(visitComplexRecordBody(tk))
       /\ UNCHANGED reached

\* The last statement of visitComplexRecord, visitComplexArray and
\* VisitUnionImpl: leaveStruct, leaveArray or leaveUnion to every handler.
Leave(op) ==
  /\ Walking
  /\ Head(tasks).op = op
  /\ \E tk \in {Head(tasks)} :
     \E st \in {ForAll(tk.Handlers, op, Args(tk), HS)} :
       /\ SetHS(st)
       /\ Continue(<<>>)
       /\ UNCHANGED reached

visitComplexRecordLeave == Leave("leaveStruct")

\* A visitArray that takes every array for one that needs decomposition.
visitArrayAlwaysComplex(annotated, Handlers) == [simple |-> <<>>, complex |-> Handlers]

\* Which handlers visitArray gives to visitSimpleArray and which to
\* visitComplexArray.
visitArrayDispatch(annotated, Handlers) ==
  IF annotated THEN [simple |-> <<>>, complex |-> Handlers]
  ELSE [simple |->
          IF ~AllTrue(VisitInsideSimpleContainers, Handlers)
          THEN HandlerFilter(Not(VisitInsideSimpleContainers), Handlers)
          ELSE <<>>,
        complex |->
          IF AnyTrue(VisitInsideSimpleContainers, Handlers)
          THEN HandlerFilter(VisitInsideSimpleContainers, Handlers)
          ELSE <<>>]

\* visitArray, with visitSimpleArray.  The annotation is looked up on the
\* FieldDecl, which for an element of an array is the array field itself.
visitArray ==
  /\ Walking
  /\ Head(tasks).op = "visitArray"
  /\ \E tk \in {Head(tasks)} :
     \E d \in {visitArrayDispatch(tk.Parent \in attrFD, tk.Handlers)} :
     \E st \in {ForAll(d.simple, "handleSimpleArrayType", Args(tk), HS)} :
       /\ SetHS(st)
       /\ Continue(IF d.complex = <<>> THEN <<>>
                   ELSE <<[tk EXCEPT !.op = "visitComplexArray",
                                    !.Handlers = d.complex]>>)
       /\ UNCHANGED reached

\* A visitNthArrayElement that hands the whole pack to every element.
visitComplexArrayUnfiltered(tk) ==
  <<Task("visitArrayElementImpl", tk.Owner, tk.Parent, TypeTable[tk.Ty].elem,
         tk.path \o <<Step("e", 0)>>, 0, tk.Handlers)>>
    \o (IF AnyTrue(VisitNthArrayElement, tk.Handlers)
        THEN [i \in 1..(TypeTable[tk.Ty].count - 1) |->
                Task("visitArrayElementImpl", tk.Owner, tk.Parent,
                     TypeTable[tk.Ty].elem, tk.path \o <<Step("e", i)>>, i,
                     tk.Handlers)]
        ELSE <<>>)
    \o <<[tk EXCEPT !.op = "leaveArray"]>>

\* visitFirstArrayElement, then visitNthArrayElement for the other indices
\* (made only if a handler of the pack asks for it, and then without the
\* handlers that do not), then leaveArray.
visitComplexArrayBody(tk) ==
  <<Task("visitArrayElementImpl", tk.Owner, tk.Parent, TypeTable[tk.Ty].elem,
         tk.path \o <<Step("e", 0)>>, 0, tk.Handlers)>>
    \o (IF AnyTrue(VisitNthArrayElement, tk.Handlers)
        THEN [i \in 1..(TypeTable[tk.Ty].count - 1) |->
                Task("visitArrayElementImpl", tk.Owner, tk.Parent,
                     TypeTable[tk.Ty].elem, tk.path \o <<Step("e", i)>>, i,
                     HandlerFilter(VisitNthArrayElement, tk.Handlers))]
        ELSE <<>>)
    \o <<[tk EXCEPT !.op = "leaveArray"]>>

\* ElemCount > 0
ElemCountAsserted(T) == TypeTable[T].count > 0

visitComplexArray ==
  /\ Walking
  /\ Head(tasks).op = "visitComplexArray"
  /\ \E tk \in {Head(tasks)} :
     \E r \in {KF_FOR_EACH(tk.Handlers, "handleArrayType", Args(tk), HS)} :
       /\ IF r.ret /\ asserts /\ ~ElemCountAsserted(tk.Ty)
          THEN \* assert(ElemCount > 0 && "SYCL prohibits 0 sized arrays")
               /\ SetHS(r.st)
               /\ vPc' = "abort"
               /\ UNCHANGED <<tasks, kobj, IsSIMDKernel, KernelDecl,
                              KernelNameInvalid, KernelFuncInvalid,
                              NullDeref, SizeWarned>>
               /\ UNCHANGED nonVisitVars
          ELSE IF r.ret
          THEN /\ \E st \in {ForAll(tk.Handlers, "enterArray", Args(tk), r.st)} :
                    SetHS(st)
               /\ Continue(visitComplexArrayBody(tk))
          ELSE /\ SetHS(r.st)
               /\ Continue(<<>>)
       /\ UNCHANGED reached

visitArrayElementImpl ==
  /\ Walking
  /\ Head(tasks).op = "visitArrayElementImpl"
  /\ \E tk \in {Head(tasks)} :
     \E st \in {ForAll(tk.Handlers, "nextElement", Args(tk), HS)} :
       /\ SetHS(st)
       /\ Continue(<<[tk EXCEPT !.op = "visitField", !.Index = 0]>>)
       /\ UNCHANGED reached

visitComplexArrayLeave == Leave("leaveArray")

\* VisitUnion and the first half of VisitUnionImpl.
VisitUnion ==
  /\ Walking
  /\ Head(tasks).op = "VisitUnion"
  /\ \E tk \in {Head(tasks)} :
       IF AnyTrue(VisitUnionBody, tk.Handlers)
       THEN \E hs \in {HandlerFilter(VisitUnionBody, tk.Handlers)} :
            \E st \in {ForAll(hs, "enterUnion", Args(tk), HS)} :
              /\ SetHS(st)
              /\ Continue(VisitRecordFields(tk.Ty, tk.path, hs)
                          \o <<[tk EXCEPT !.op = "leaveUnion", !.Handlers = hs]>>)
              /\ UNCHANGED reached
       ELSE /\ Continue(<<>>)
            /\ UNCHANGED <<FieldCheckerInvalid, UnionCheckerInvalid, UnionCount,
                           CollectionStack, attrRD, attrFD, CurOffset,
                           ArrayBaseOffsets, StructDepth, ParamDescs, hlog,
                           hdrTrace, reached, kernel_decl, kernel_body,
                           SizeOfParams, SizeTrap>>

VisitUnionImplLeave == Leave("leaveUnion")

\* The loop of visitStreamRecord over the fields of the stream class.
RECURSIVE StreamFields(_, _, _)
StreamFields(tk, i, st) ==
  IF i > Len(TypeTable[tk.Ty].fields) THEN st
  ELSE StreamFields(tk, i + 1,
         IF kindOf(TypeTable[tk.Ty].fields[i].ty) = "accessor"
         THEN KF_FOR_EACH(tk.Handlers, "handleSyclAccessorType",
                          [Owner |-> tk.Ty, Parent |-> FD(tk.Ty, i),
                           Ty |-> TypeTable[tk.Ty].fields[i].ty, Index |-> 0,
                           path |-> tk.path \o <<Step("f", i)>>], st).st
         ELSE st)

visitStreamRecord ==
  /\ Walking
  /\ Head(tasks).op = "visitStreamRecord"
  /\ \E tk \in {Head(tasks)} :
     \E s1 \in {ForAll(tk.Handlers, "enterStream", Args(tk), HS)} :
     \E s2 \in {StreamFields(tk, 1, s1)} :
     \E s3 \in {ForAll(tk.Handlers, "leaveStream", Args(tk), s2)} :
       /\ SetHS(s3)
       /\ Continue(<<>>)
       /\ UNCHANGED reached

(***************************************************************************)
(* The three walks over one kernel object.                                 *)
(***************************************************************************)
\* A walk that visits the fields of the kernel object before its bases.
VisitKernelObjFieldsFirst(Handlers) ==
  VisitRecordFields(kobj, <<>>, Handlers) \o VisitRecordBases(kobj, <<>>, Handlers)

VisitKernelObj(Handlers) ==
  VisitRecordBases(kobj, <<>>, Handlers) \o VisitRecordFields(kobj, <<>>, Handlers)

UnchangedHandlers ==
  UNCHANGED <<kobj, FieldCheckerInvalid, UnionCheckerInvalid, UnionCount,
              CollectionStack, attrRD, attrFD, CurOffset, ArrayBaseOffsets,
              StructDepth, ParamDescs, hlog, hdrTrace, reached, IsSIMDKernel,
              SizeOfParams, SizeTrap>>

\* CheckSYCLKernelCall: the kernel name is checked, then the field checker,
\* the union checker and the decomposition marker walk the object together.
CheckSYCLKernelCall ==
  /\ vPc = "start"
  /\ vPc' = "check"
  /\ \E nameValid \in BOOLEAN : KernelNameInvalid' = ~nameValid
  /\ tasks' = VisitKernelObj(<<"FieldChecker", "UnionChecker", "DecompMarker">>)
  /\ UnchangedHandlers
  /\ UNCHANGED <<kernel_decl, kernel_body, KernelDecl, KernelFuncInvalid,
                 NullDeref, SizeWarned>>
  /\ UNCHANGED nonVisitVars

\* What the call InitMethod->parameters() does when getMethodByName has
\* returned null and no assertion stopped the compilation before: undefined
\* behaviour, a crash or a loop over no parameters.
NullDerefOutcomes == {"crash", "none"}

\* A size walk that is made whatever the checkers found.
CheckArgsSizeAlways ==
  /\ vPc = "check"
  /\ tasks = <<>>
  /\ vPc' = "size"
  /\ tasks' = VisitKernelObj(<<"ArgsSizeChecker">>)
  /\ NullDeref' \in NullDerefOutcomes
  /\ UnchangedHandlers
  /\ UNCHANGED <<kernel_decl, kernel_body, KernelDecl, KernelNameInvalid,
                 KernelFuncInvalid, SizeWarned>>
  /\ UNCHANGED nonVisitVars

\* ... then the size checker on its own, if both checkers are still valid.
CheckArgsSize ==
  /\ vPc = "check"
  /\ tasks = <<>>
  /\ vPc' = "size"
  /\ tasks' = IF ~FieldCheckerInvalid /\ ~UnionCheckerInvalid
              THEN VisitKernelObj(<<"ArgsSizeChecker">>) ELSE <<>>
  /\ NullDeref' \in NullDerefOutcomes
  /\ UnchangedHandlers
  /\ UNCHANGED <<kernel_decl, kernel_body, KernelDecl, KernelNameInvalid,
                 KernelFuncInvalid, SizeWarned>>
  /\ UNCHANGED nonVisitVars

\* ~SyclKernelArgsSizeChecker
ArgsSizeCheckerDestructor(size) == size > MaxKernelArgsSize

\* The end of CheckSYCLKernelCall: the kernel function is set invalid if any
\* of the checkers failed; the size checker is destroyed.
CheckSYCLKernelCallReturn ==
  /\ vPc = "size"
  /\ tasks = <<>>
  /\ SizeTrap = ""
  /\ vPc' = "checked"
  /\ KernelFuncInvalid' = (FieldCheckerInvalid \/ UnionCheckerInvalid
                             \/ KernelNameInvalid)
  /\ SizeWarned' = ArgsSizeCheckerDestructor(SizeOfParams)
  /\ UNCHANGED <<tasks, NullDeref>>
  /\ UnchangedHandlers
  /\ UNCHANGED <<kernel_decl, kernel_body, KernelDecl, KernelNameInvalid>>
  /\ UNCHANGED nonVisitVars

\* The instantiation of the kernel function that ends in a call of
\* ConstructOpenCLKernel: an invalid function is not instantiated.
InstantiateFunctionDefinition == ~KernelFuncInvalid

\* ConstructOpenCLKernel, called for a kernel function that was instantiated.
ConstructOpenCLKernel ==
  /\ vPc = "checked"
  /\ InstantiateFunctionDefinition
  /\ tasks = <<>>
  /\ vPc' = "gen"
  /\ tasks' = VisitKernelObj(<<"kernel_decl", "kernel_body", "int_header">>)
  /\ UnchangedHandlers
  /\ UNCHANGED <<kernel_decl, kernel_body, KernelDecl, KernelNameInvalid,
                 KernelFuncInvalid, NullDeref, SizeWarned>>
  /\ UNCHANGED nonVisitVars

\* The end of ConstructOpenCLKernel: the destructors of the body creator and
\* of the declaration creator give the entry function its body and its
\* parameters.  createKernelBody asserts that one initialiser list is left.
VisitReturn ==
  /\ vPc = "gen"
  /\ tasks = <<>>
  /\ vPc' = IF asserts /\ Len(kernel_body.CollectionInitExprs) # 1
            THEN "abort" ELSE "done"
  /\ KernelDecl' = [params |-> kernel_decl.Params,
                    body |-> createKernelBody(kernel_body),
                    init |-> IF kernel_body.CollectionInitExprs = <<>> THEN 0
                             ELSE Back(kernel_body.CollectionInitExprs)]
  /\ UNCHANGED tasks
  /\ UnchangedHandlers
  /\ UNCHANGED <<kernel_decl, kernel_body, KernelNameInvalid, KernelFuncInvalid,
                 NullDeref, SizeWarned>>
  /\ UNCHANGED nonVisitVars

VisitNext ==
  \/ CheckSYCLKernelCall
  \/ CheckArgsSize
  \/ CheckSYCLKernelCallReturn
  \/ ConstructOpenCLKernel
  \/ VisitReturn
  \/ VisitRecordHelper
  \/ visitField
  \/ visitRecord
  \/ visitComplexRecord
  \/ visitComplexRecordLeave
  \/ visitArray
  \/ visitComplexArray
  \/ visitArrayElementImpl
  \/ visitComplexArrayLeave
  \/ VisitUnion
  \/ VisitUnionImplLeave
  \/ visitStreamRecord

\* One kernel object in a translation unit whose declarations carry no
\* decomposition annotation yet, and freshly constructed handlers.
InitVisit ==
  /\ asserts \in BOOLEAN
  /\ host = "little"
  /\ aPc = "idle"
  /\ aKey = ""
  /\ aCall = <<>>
  /\ aArgs = <<>>
  /\ aSuffix = ""
  /\ aNum = -1
  /\ F = <<>>
  /\ GVTS = {}
  /\ pc = "idle"
  /\ idx = 0
  /\ ESIMDIntrCalls = <<>>
  /\ ESIMDToErases = <<>>
  /\ created = <<>>
  /\ repl = <<>>
  /\ erased = <<>>
  /\ mdNode = <<>>
  /\ result = ""
  /\ diag = ""
  /\ kobj \in KernelObjs
  /\ vPc = "start"
  /\ tasks = <<>>
  /\ FieldCheckerInvalid = FALSE
  /\ UnionCheckerInvalid = FALSE
  /\ UnionCount = 0
  /\ CollectionStack = <<TRUE>>
  /\ attrRD = {}
  /\ attrFD = {}
  /\ CurOffset = 0
  /\ ArrayBaseOffsets = <<>>
  /\ StructDepth = 0
  /\ ParamDescs = <<>>
  /\ hlog = [h \in HandlerIds \ {"Empty"} |-> <<>>]
  /\ hdrTrace = <<>>
  /\ reached = <<>>
  /\ IsSIMDKernel \in BOOLEAN
  /\ kernel_decl = [Params |-> <<>>, LastParamIndex |-> 0, StructDepth |-> 0]
  /\ kernel_body = NewSyclKernelBodyCreator(kobj)
  /\ KernelDecl = [params |-> <<>>, body |-> <<>>, init |-> 0]
  /\ KernelNameInvalid = FALSE
  /\ KernelFuncInvalid = FALSE
  /\ SizeOfParams = 0
  /\ SizeTrap = ""
  /\ NullDeref = ""
  /\ SizeWarned = FALSE
  /\ MarkIdle
  /\ SLMIdle

SpecVisit == InitVisit /\ [][VisitNext]_vars

(***************************************************************************)
(* Properties of the visitor and of the integration-header handler.        *)
(***************************************************************************)
VisitFinished == vPc = "done"

\* The handlers CheckSYCLKernelCall and ConstructOpenCLKernel hand to the
\* visitor in each of the walks.
WalkHandlers(pass) ==
  CASE pass = "check" -> {"FieldChecker", "UnionChecker", "DecompMarker"}
    [] pass = "size" -> {"ArgsSizeChecker"}
    [] pass = "gen" -> {"kernel_decl", "kernel_body", "int_header"}

Attached(r) == Range(r.Handlers) \ {"Empty"}

Received(h, ev, p) == \E i \in 1..Len(hlog[h]) : hlog[h][i] = <<ev, p>>

Times(h, ev, p) == Cardinality({i \in 1..Len(hlog[h]) : hlog[h][i] = <<ev, p>>})

IsPrefix(p, q) == Len(p) <= Len(q) /\ SubSeq(q, 1, Len(p)) = p

Inside(p, q) == IsPrefix(p, q) /\ p # q

\* h received enterStruct for the struct at p, then only notifications
\* about the struct and what it contains, then leaveStruct; and nothing
\* about the inside of the struct at any other time.
ComplexPath(h, p) ==
  /\ Times(h, "enterStruct", p) = 1
  /\ Times(h, "leaveStruct", p) = 1
  /\ ~Received(h, "handleNonDecompStruct", p)
  /\ \E i, j \in 1..Len(hlog[h]) :
       /\ i < j
       /\ hlog[h][i] = <<"enterStruct", p>>
       /\ hlog[h][j] = <<"leaveStruct", p>>
       /\ \A k \in 1..Len(hlog[h]) :
            Inside(p, hlog[h][k][2]) => i < k /\ k < j
       /\ \A k \in (i + 1)..(j - 1) : Inside(p, hlog[h][k][2])

\* h received handleNonDecompStruct for the struct at p and nothing else
\* about entering it or about its inside.
SimplePath(h, p) ==
  /\ Times(h, "handleNonDecompStruct", p) = 1
  /\ ~Received(h, "enterStruct", p)
  /\ ~Received(h, "leaveStruct", p)
  /\ \A k \in 1..Len(hlog[h]) : ~Inside(p, hlog[h][k][2])

NeverBoth ==
  \A i \in 1..Len(reached) : \A h \in WalkHandlers(reached[i].pass) :
    ~(Received(h, "handleNonDecompStruct", reached[i].path)
      /\ Received(h, "enterStruct", reached[i].path))

StructPaths(attachedOnly) ==
  \A i \in 1..Len(reached) :
    \A h \in (IF attachedOnly THEN Attached(reached[i])
              ELSE WalkHandlers(reached[i].pass)) :
      IF reached[i].annotated \/ VisitInsideSimpleContainers[h]
      THEN ComplexPath(h, reached[i].path)
      ELSE SimplePath(h, reached[i].path)

\* C6 as stated: for each struct the visitor reaches, every handler of the
\* walk receives enterStruct/inside/leaveStruct if the struct is annotated
\* or the handler visits inside simple containers, and only
\* handleNonDecompStruct otherwise; no handler receives both.
C6_EveryHandlerVisitsStruct ==
  VisitFinished => StructPaths(FALSE) /\ NeverBoth

\* C6, amended: the same for every handler that is still in the pack
\* visitRecord is called with, that is, not replaced by the empty handler
\* on the way into a union body or a later array element.
C6_AttachedHandlersVisitStruct ==
  VisitFinished => StructPaths(TRUE) /\ NeverBoth

\* A finished walk that reached an annotated struct with a filtered pack
\* (inside a union body), an annotated struct in the generating walk, and
\* a struct without annotation in the generating walk.
C6_Witness ==
  /\ VisitFinished
  /\ \E i, j, k \in 1..Len(reached) :
       /\ reached[i].annotated /\ "Empty" \in Range(reached[i].Handlers)
       /\ Attached(reached[i]) # {}
       /\ reached[j].annotated /\ reached[j].pass = "gen"
       /\ ~reached[k].annotated /\ reached[k].pass = "gen"

\* The containers a handler has entered and not yet left at the end of its
\* log, innermost last; ok is FALSE if a leave came that does not match the
\* innermost container open at that moment.
EnterOf(ev) ==
  CASE ev = "leaveStruct" -> "enterStruct"
    [] ev = "leaveArray" -> "enterArray"
    [] ev = "leaveStream" -> "enterStream"
    [] ev = "leaveUnion" -> "enterUnion"
    [] OTHER -> ""

Enters == {"enterStruct", "enterArray", "enterStream", "enterUnion"}

RECURSIVE OpenFrom(_, _, _)
OpenFrom(log, n, stack) ==
  IF n > Len(log) THEN [ok |-> TRUE, stack |-> stack]
  ELSE IF log[n][1] \in Enters THEN OpenFrom(log, n + 1, Append(stack, log[n]))
  ELSE IF EnterOf(log[n][1]) = "" THEN OpenFrom(log, n + 1, stack)
  ELSE IF stack # <<>> /\ stack[Len(stack)] = <<EnterOf(log[n][1]), log[n][2]>>
       THEN OpenFrom(log, n + 1, SubSeq(stack, 1, Len(stack) - 1))
       ELSE [ok |-> FALSE, stack |-> stack]

Open(log) == OpenFrom(log, 1, <<>>)

RealHandlers == HandlerIds \ {"Empty"}

\* C7: at every moment each handler's notifications are well nested (a
\* leave always closes the innermost container still open, for the same
\* container), and when a walk has returned every enter has had its leave.
C7_NotificationsWellNested ==
  \A h \in RealHandlers :
    \E open \in {Open(hlog[h])} :
      /\ open.ok
      /\ (vPc # "start" /\ tasks = <<>>) => open.stack = <<>>

\* The finished check of an object on which the field checker returned false,
\* with a struct entered inside an array inside a struct.
C7_Witness ==
  /\ vPc = "checked"
  /\ FieldCheckerInvalid
  /\ \E h \in RealHandlers : \E i, j, k \in 1..Len(hlog[h]) :
       /\ i < j /\ j < k
       /\ hlog[h][i][1] = "enterArray"
       /\ hlog[h][j][1] = "enterStruct"
       /\ Inside(hlog[h][i][2], hlog[h][j][2])
       /\ hlog[h][k] = <<"leaveArray", hlog[h][i][2]>>

\* The last enter of int_header, before its j-th traced notification, for
\* the container that notification is about.
MatchingEnter(j) ==
  CHOOSE i \in 0..(j - 1) :
    /\ i = 0 \/ (/\ hdrTrace[i].ev = EnterOf(hdrTrace[j].ev)
                 /\ hdrTrace[i].path = hdrTrace[j].path)
    /\ \A k \in (i + 1)..(j - 1) :
         ~(/\ hdrTrace[k].ev = EnterOf(hdrTrace[j].ev)
           /\ hdrTrace[k].path = hdrTrace[j].path)

\* C8: each leaveStruct, leaveStream and leaveArray of the integration
\* header handler puts CurOffset back to what it was just before the
\* matching enter; after the walk CurOffset is 0 and ArrayBaseOffsets is
\* empty.
C8_OffsetRestoredOnLeave ==
  /\ \A j \in 1..Len(hdrTrace) :
       EnterOf(hdrTrace[j].ev) # "" =>
         /\ MatchingEnter(j) # 0
         /\ hdrTrace[j].post = hdrTrace[MatchingEnter(j)].pre
  /\ VisitFinished => CurOffset = 0 /\ ArrayBaseOffsets = <<>>

\* A finished walk in which a struct, a stream and an array were left, each
\* after CurOffset had moved inside it.
C8_Witness ==
  /\ VisitFinished
  /\ \A ev \in {"leaveStruct", "leaveStream", "leaveArray"} :
       \E j \in 1..Len(hdrTrace) :
         hdrTrace[j].ev = ev /\ hdrTrace[j].pre # hdrTrace[j].post

\* The byte offset, inside an object of type T, of the subobject the path
\* leads to: base-class offsets, field offsets and index times element size,
\* added up along the path.
RECURSIVE OffsetIn(_, _)
OffsetIn(T, p) ==
  IF p = <<>> THEN 0
  ELSE CASE p[1][1] = "b" ->
              TypeTable[T].bases[p[1][2]].off
                + OffsetIn(TypeTable[T].bases[p[1][2]].ty, Tail(p))
         [] p[1][1] = "f" ->
              TypeTable[T].fields[p[1][2]].off
                + OffsetIn(TypeTable[T].fields[p[1][2]].ty, Tail(p))
         [] p[1][1] = "e" ->
              p[1][2] * TypeTable[TypeTable[T].elem].size
                + OffsetIn(TypeTable[T].elem, Tail(p))

Through(tag, p) == \E i \in 1..Len(p) : p[i][1] = tag

\* C9: an entry for something inside an element of a decomposed array, or
\* reached through a base class, records the byte offset of that subobject
\* in the kernel object.
C9_EntryOffsetIsSourceOffset ==
  \A i \in 1..Len(ParamDescs) :
    Through("e", ParamDescs[i].path) \/ Through("b", ParamDescs[i].path) =>
      ParamDescs[i].offset = OffsetIn(kobj, ParamDescs[i].path)

\* A finished walk with an entry for a field of a struct that is a later
\* element of an array, and one for a field of a base of such an element.
C9_Witness ==
  /\ VisitFinished
  /\ \E i, j \in 1..Len(ParamDescs) :
       /\ \E n \in 1..(Len(ParamDescs[i].path) - 1) :
            /\ ParamDescs[i].path[n][1] = "e" /\ ParamDescs[i].path[n][2] > 0
            /\ ParamDescs[i].path[n + 1][1] = "f"
       /\ \E n \in 1..(Len(ParamDescs[j].path) - 1) :
            /\ ParamDescs[j].path[n][1] = "e" /\ ParamDescs[j].path[n][2] > 0
            /\ ParamDescs[j].path[n + 1][1] = "b"
       /\ ParamDescs[j].offset > ParamDescs[i].offset

Offsets == [i \in 1..Len(ParamDescs) |-> ParamDescs[i].offset]

\* C10 as stated: the object with 4-byte scalars at 0, 8 and 16 and an array
\* of four 4-byte scalars at 20 gets seven entries, one per array element.
C10_OneEntryPerArrayElement ==
  VisitFinished /\ kobj = "K10" => Offsets = <<0, 8, 16, 20, 24, 28, 32>>

\* C10, amended: it gets four entries, at 0, 8, 16 and 20; the array needs
\* no decomposition and is described by one plain-layout entry of its whole
\* size.
C10_OneEntryForSimpleArray ==
  VisitFinished /\ kobj = "K10" =>
    /\ Offsets = <<0, 8, 16, 20>>
    /\ ParamDescs[4].kind = "kind_std_layout"
    /\ ParamDescs[4].info = getTypeSizeInChars("A4")

\* The finished walk of that object, the array not annotated.
C10_Witness ==
  /\ VisitFinished
  /\ kobj = "K10"
  /\ FD("K10", 4) \notin attrFD
  /\ Len(ParamDescs) = 4

(***************************************************************************)
(* Properties of the declaration creator, the checkers and the body        *)
(* creator.                                                                *)
(***************************************************************************)
\* The type of the subobject of an object of type T that the path leads to.
RECURSIVE TypeAt(_, _)
TypeAt(T, p) ==
  IF p = <<>> THEN T
  ELSE CASE p[1][1] = "b" -> TypeAt(TypeTable[T].bases[p[1][2]].ty, Tail(p))
         [] p[1][1] = "f" -> TypeAt(TypeTable[T].fields[p[1][2]].ty, Tail(p))
         [] p[1][1] = "e" -> TypeAt(TypeTable[T].elem, Tail(p))

Types(ps) == [i \in 1..Len(ps) |-> ps[i].type]

\* The positions in Params of the parameters made for the subobject at p.
ParamsOf(p) == {i \in 1..Len(kernel_decl.Params) : kernel_decl.Params[i].path = p}

Consecutive(I) == \A i, k \in I : \A j \in i..k : j \in I

RECURSIVE TypesFrom(_, _)
TypesFrom(i, n) ==
  IF n = 0 THEN <<>>
  ELSE <<kernel_decl.Params[i].type>> \o TypesFrom(i + 1, n - 1)

\* The types of the parameters made for the subobject at p, in order.
ParamTypesOf(p) ==
  IF ParamsOf(p) = {} THEN <<>>
  ELSE TypesFrom(CHOOSE i \in ParamsOf(p) : \A j \in ParamsOf(p) : i <= j,
                 Cardinality(ParamsOf(p)))

\* The initialiser of a special class in this kernel: the accessor's ESIMD
\* initialiser in an ESIMD kernel.
InitMethodOf(T) ==
  MethodTable[T][IF IsSIMDKernel /\ kindOf(T) = "accessor"
                 THEN InitESIMDMethodName ELSE InitMethodName]

SpecialEvents == {"handleSyclAccessorType", "handleSyclSamplerType"}

\* C11: for every accessor or sampler field and every accessor base the
\* declaration creator was given, the parameters made for it are consecutive
\* and have the types of the parameters of the class's init method, in
\* order; the object with an accessor (pointer, range, range) and an int
\* gets the four parameters pointer, range, range, int.
C11_ParamsMirrorInitMethod ==
  /\ \A i \in 1..Len(hlog["kernel_decl"]) :
       hlog["kernel_decl"][i][1] \in SpecialEvents =>
         /\ Consecutive(ParamsOf(hlog["kernel_decl"][i][2]))
         /\ ParamTypesOf(hlog["kernel_decl"][i][2])
              = InitMethodOf(TypeAt(kobj, hlog["kernel_decl"][i][2]))
  /\ VisitFinished /\ kobj = "KI" /\ ~IsSIMDKernel =>
       Types(KernelDecl.params) = <<"gptr", "range", "range", "int">>

\* The entry function of an object with an accessor base, an accessor field
\* in a struct and a sampler field, each with its parameters.
C11_Witness ==
  /\ VisitFinished
  /\ ~IsSIMDKernel
  /\ \E i, j, k \in 1..Len(KernelDecl.params) :
       /\ KernelDecl.params[i].path = <<Step("b", 3)>>
       /\ KernelDecl.params[i].type = "range"
       /\ Len(KernelDecl.params[j].path) = 2
       /\ KernelDecl.params[j].type = "range"
       /\ KernelDecl.params[k].type = "sampler_t"

\* The subobjects a list of parameters or of descriptors was made for, each
\* named once where a run of entries for it begins.
RECURSIVE Items(_, _, _)
Items(s, i, acc) ==
  IF i > Len(s) THEN acc
  ELSE Items(s, i + 1,
             IF acc # <<>> /\ acc[Len(acc)] = s[i].path THEN acc
             ELSE Append(acc, s[i].path))

DescOf(i) == [kind |-> ParamDescs[i].kind, offset |-> ParamDescs[i].offset]

StepBefore(s, r) == (s[1] = "b" /\ r[1] = "f") \/ (s[1] = r[1] /\ s[2] < r[2])

RECURSIVE NotAfter(_, _)
NotAfter(p, q) ==
  IF p = <<>> THEN TRUE
  ELSE IF q = <<>> THEN FALSE
  ELSE IF p[1] = q[1] THEN NotAfter(Tail(p), Tail(q))
  ELSE StepBefore(p[1], q[1])

\* C13: the parameters are in the order of a depth-first walk of the kernel
\* object in declaration order (bases before fields, the parameters of a
\* decomposed struct or array element together at the place of that field),
\* and every parameter carries as its index the number of parameters made
\* before it.
C13_ParamsInVisitOrder ==
  /\ \A i \in 1..Len(kernel_decl.Params) :
       /\ kernel_decl.Params[i].index = i - 1
       /\ i > 1 => NotAfter(kernel_decl.Params[i - 1].path,
                            kernel_decl.Params[i].path)
  /\ VisitFinished => KernelDecl.params = kernel_decl.Params

\* An entry function with parameters for a pointer in a base, for a field of
\* a later element of an array of structs, and for a field declared after
\* that array.
C13_Witness ==
  /\ VisitFinished
  /\ \E i, j, k \in 1..Len(KernelDecl.params) :
       /\ i < j /\ j < k
       /\ KernelDecl.params[i].path[1][1] = "b"
       /\ Len(KernelDecl.params[j].path) = 3
       /\ KernelDecl.params[j].path[2] = Step("e", 1)
       /\ Len(KernelDecl.params[k].path) = 1

PointerParams ==
  {i \in 1..Len(kernel_decl.Params) :
     kindOf(TypeAt(kobj, kernel_decl.Params[i].path)) = "pointer"}

\* The subobject at p lies inside a struct: a struct-typed field, base or
\* array element of the kernel object contains it.
InStruct(p) ==
  \E n \in 1..(Len(p) - 1) : kindOf(TypeAt(kobj, SubSeq(p, 1, n))) = "struct"

\* C14 as stated: a pointer that is a field of the kernel object itself gets
\* a raw pointer parameter, every other pointer (in a decomposed struct, a
\* base class or an array element) a parameter of __wrapper_class type.
C14_PointersBelowTopWrapped ==
  \A i \in PointerParams :
    kernel_decl.Params[i].wrapped = (Len(kernel_decl.Params[i].path) > 1)

\* C14, amended: a pointer gets a parameter of __wrapper_class type exactly
\* when it lies inside a decomposed struct or base class; a pointer that is
\* a field of the kernel object, or an element of an array field of the
\* kernel object, gets a raw pointer parameter.
C14_PointersInStructsWrapped ==
  \A i \in PointerParams :
    kernel_decl.Params[i].wrapped = InStruct(kernel_decl.Params[i].path)

\* An entry function with a raw parameter for a pointer in an array field of
\* the kernel object, and wrapped ones for a pointer in a base and for a
\* pointer in an array inside a struct.
C14_Witness ==
  /\ VisitFinished
  /\ \E i, j, k \in PointerParams :
       /\ ~KernelDecl.params[i].wrapped
       /\ Through("e", KernelDecl.params[i].path)
       /\ KernelDecl.params[j].wrapped
       /\ KernelDecl.params[j].path[1][1] = "b"
       /\ KernelDecl.params[k].wrapped
       /\ KernelDecl.params[k].path[Len(KernelDecl.params[k].path)][1] = "e"

Resources == {"pointer", "accessor", "sampler", "stream"}

\* T is or transitively contains a pointer or a special resource; a union
\* counts only with unions = TRUE.
RECURSIVE Contains(_, _)
Contains(T, unions) ==
  CASE kindOf(T) \in Resources -> TRUE
    [] kindOf(T) = "array" -> Contains(TypeTable[T].elem, unions)
    [] kindOf(T) = "struct" \/ (kindOf(T) = "union" /\ unions) ->
         \/ \E i \in 1..Len(TypeTable[T].bases) :
              Contains(TypeTable[T].bases[i].ty, unions)
         \/ \E i \in 1..Len(TypeTable[T].fields) :
              Contains(TypeTable[T].fields[i].ty, unions)
    [] OTHER -> FALSE

\* The struct and array subobjects of an object of type T, each with its
\* type and the declaration it belongs to (for an array and its elements,
\* the array field); the inside of unions only with unions = TRUE.
RECURSIVE Subobjects(_, _, _)
Subobjects(T, D, unions) ==
  CASE kindOf(T) = "array" ->
         {[Ty |-> T, D |-> D]} \cup Subobjects(TypeTable[T].elem, D, unions)
    [] kindOf(T) = "struct" \/ (kindOf(T) = "union" /\ unions) ->
         (IF kindOf(T) = "struct" THEN {[Ty |-> T, D |-> D]} ELSE {})
           \cup UNION {Subobjects(TypeTable[T].bases[i].ty, BS(T, i), unions) :
                         i \in 1..Len(TypeTable[T].bases)}
           \cup UNION {Subobjects(TypeTable[T].fields[i].ty, FD(T, i), unions) :
                         i \in 1..Len(TypeTable[T].fields)}
    [] OTHER -> {}

\* The struct and array subobjects of the kernel object, itself excluded.
Aggregates(unions) == Subobjects(kobj, BS(kobj, 0), unions) \ {[Ty |-> kobj, D |-> BS(kobj, 0)]}

RequiresDecomposition(s) ==
  IF kindOf(s.Ty) = "array" THEN s.D \in attrFD ELSE s.Ty \in attrRD

Checked == vPc \in {"size", "checked", "gen", "done"}

NoCheckerErrors == ~FieldCheckerInvalid /\ ~UnionCheckerInvalid

\* C15 as stated: after a walk without checker errors every struct type and
\* array field of the kernel object that transitively contains a pointer or
\* a special resource carries the requires-decomposition annotation.
C15_EveryContainerAnnotated ==
  Checked /\ NoCheckerErrors =>
    \A s \in Aggregates(TRUE) : Contains(s.Ty, TRUE) => RequiresDecomposition(s)

\* C15, amended: the same for the structs and array fields that do not lie
\* inside a union and that contain the pointer or resource without passing
\* through a union; the marker does not look into unions.
C15_ContainersOutsideUnionsAnnotated ==
  Checked /\ NoCheckerErrors =>
    \A s \in Aggregates(FALSE) : Contains(s.Ty, FALSE) => RequiresDecomposition(s)

\* A checked object without errors in which a struct with an array of
\* pointers, inside an array, inside the kernel object, is annotated, as are
\* both arrays.
C15_Witness ==
  /\ Checked
  /\ NoCheckerErrors
  /\ kobj = "KA"
  /\ {"D", "B2", "S"} \subseteq attrRD
  /\ {FD("KA", 5), FD("D", 2)} \subseteq attrFD

Generating == vPc \in {"gen", "done"}

\* C16: on a kernel object without checker errors the stack of initialiser
\* lists of the body creator is never empty during the walk, and when the
\* walk is over it holds exactly one entry, the list of the clone.
C16_OneInitListLeft ==
  Generating /\ NoCheckerErrors =>
    /\ Len(kernel_body.CollectionInitExprs) >= 1
    /\ tasks = <<>> => kernel_body.CollectionInitExprs = <<1>>
    /\ VisitFinished => KernelDecl.init = 1

\* The finished walk of an object without errors that has a base, a stream,
\* a struct and an array to decompose; six lists were made.
C16_Witness ==
  /\ VisitFinished
  /\ NoCheckerErrors
  /\ kobj = "KB"
  /\ Len(kernel_body.InitLists) = 6
  /\ kernel_body.CollectionInitExprs = <<1>>

InitCalls(b) ==
  {i \in 1..Len(b) : b[i].kind = "call"
                       /\ b[i].method \in {InitMethodName, InitESIMDMethodName}}

FinalizeCalls(b) ==
  {i \in 1..Len(b) : b[i].kind = "call" /\ b[i].method = FinalizeMethodName}

BodyCount(ev) ==
  Cardinality({i \in 1..Len(hlog["kernel_body"]) : hlog["kernel_body"][i][1] = ev})

\* C17: the body of the entry function is the declaration of the clone,
\* then the init calls, then the body of the kernel caller, then the
\* __finalize calls of the streams and nothing else; every stream has its
\* __finalize call and, in a kernel that is not ESIMD, every accessor,
\* sampler and stream its init call.
C17_BodyStatementOrder ==
  VisitFinished =>
    \E b \in {KernelDecl.body} :
    \E n \in 2..Len(b) :
      /\ b[1].kind = "DeclStmt"
      /\ b[n].kind = "NewBody"
      /\ InitCalls(b) = 2..(n - 1)
      /\ FinalizeCalls(b) = (n + 1)..Len(b)
      /\ Cardinality(FinalizeCalls(b)) = BodyCount("leaveStream")
      /\ ~IsSIMDKernel =>
           Cardinality(InitCalls(b))
             = BodyCount("handleSyclAccessorType")
                 + BodyCount("handleSyclSamplerType") + BodyCount("leaveStream")

\* The body made for an object with accessors, a sampler and a stream: six
\* statements or more before the body of the kernel caller, one after it.
C17_Witness ==
  /\ VisitFinished
  /\ ~IsSIMDKernel
  /\ Len(KernelDecl.body) >= 8
  /\ KernelDecl.body[Len(KernelDecl.body)].method = FinalizeMethodName
  /\ KernelDecl.body[Len(KernelDecl.body) - 1].kind = "NewBody"

\* The i-th subobject of an object of type T at p, in the order an
\* initialiser list of T names them: bases, then fields; or elements.
SlotStep(T, i) ==
  IF kindOf(T) = "array" THEN Step("e", i - 1)
  ELSE IF i <= Len(TypeTable[T].bases) THEN Step("b", i)
  ELSE Step("f", i - Len(TypeTable[T].bases))

SlotCount(T) ==
  IF kindOf(T) = "array" THEN TypeTable[T].count ELSE NumInitExprs(T)

\* The entity an initialiser for that subobject names.
SlotEntity(T, i, e) ==
  IF kindOf(T) = "array" THEN e.kind = "element" /\ e.index = i - 1
  ELSE IF i <= Len(TypeTable[T].bases) THEN e.kind = "base" /\ e.D = BS(T, i)
  ELSE e.kind = "member" /\ e.D = FD(T, i - Len(TypeTable[T].bases))

ArgsOf(p) == [I \in 1..Cardinality(ParamsOf(p)) |->
                (CHOOSE i \in ParamsOf(p) : \A j \in ParamsOf(p) : i <= j) + I - 2]

\* The expression an init call for the subobject at p is made on: the
\* subobject, or for a base the object it is a base of.
CallObject(p) == IF Back(p)[1] = "b" THEN PopBack(p) ELSE p

\* The initialiser in, made for the subobject at p, gives it its value back:
\* a copy of the one parameter made for p, through the wrapper if the
\* parameter has one; or a default initialisation of a special object that
\* has one init call, with the parameters made for p as arguments.
LeafRestored(in, p) ==
  CASE in.kind = "copy" ->
         /\ ParamsOf(p) = {in.param + 1}
         /\ in.unwrap = kernel_decl.Params[in.param + 1].wrapped
    [] in.kind = "default" ->
         /\ kindOf(TypeAt(kobj, p)) \in {"accessor", "sampler"}
         /\ Cardinality({i \in InitCalls(KernelDecl.body) :
                           /\ KernelDecl.body[i].object = CallObject(p)
                           /\ KernelDecl.body[i].args = ArgsOf(p)}) = 1
    [] OTHER -> FALSE

\* The initialiser list ile is one for the object of type T at p: it has one
\* initialiser per base and field (or element) of T, in declaration order,
\* each restoring that subobject.
RECURSIVE Reconstructs(_, _, _)
Reconstructs(ile, T, p) ==
  \E L \in {kernel_body.InitLists[ile]} :
    /\ L.type = T
    /\ Len(L.inits) = SlotCount(T)
    /\ \A i \in 1..Len(L.inits) :
         \E sub \in {p \o <<SlotStep(T, i)>>} :
           IF L.inits[i].kind = "list"
           THEN Reconstructs(L.inits[i].ile, TypeAt(kobj, sub), sub)
           ELSE /\ SlotEntity(T, i, L.inits[i].entity)
                /\ LeafRestored(L.inits[i], sub)

\* C18: for a kernel object without checker errors the initialiser of the
\* clone rebuilds the object: every initialiser list has exactly one
\* initialiser per base and per field or array element, in declaration
\* order, each taking the value of its subobject from the parameters made
\* for that subobject.
C18_InitTreeRebuildsObject ==
  VisitFinished /\ NoCheckerErrors => Reconstructs(KernelDecl.init, kobj, <<>>)

\* The fields, bases and first array elements of an object of type T at p,
\* outside unions and special classes: what the field checker is shown if
\* nothing stops it.
RECURSIVE FieldPaths(_, _)
FieldPaths(T, p) ==
  CASE kindOf(T) = "array" ->
         FieldPaths(TypeTable[T].elem, p \o <<Step("e", 0)>>)
           \cup {p \o <<Step("e", 0)>>}
    [] kindOf(T) = "struct" ->
         UNION {FieldPaths(TypeTable[T].bases[i].ty, p \o <<Step("b", i)>>)
                  \cup {p \o <<Step("b", i)>>} : i \in 1..Len(TypeTable[T].bases)}
           \cup
         UNION {FieldPaths(TypeTable[T].fields[i].ty, p \o <<Step("f", i)>>)
                  \cup {p \o <<Step("f", i)>>} : i \in 1..Len(TypeTable[T].fields)}
    [] OTHER -> {}

\* The field at p is one the checker rejects: a reference, a field of an
\* unsupported type, or a struct or array field that cannot be copied.
Illegal(p) ==
  /\ Back(p)[1] # "b"
  /\ \/ kindOf(TypeAt(kobj, p)) \in {"reference", "other"}
     \/ /\ kindOf(TypeAt(kobj, p)) \in {"struct", "array"}
        /\ checkNotCopyableToKernel(TypeAt(kobj, p))

IllegalFields == {p \in FieldPaths(kobj, <<>>) : Illegal(p)}

\* The checker was given the field at p by the method that reports it.
Reported(p) ==
  \E ev \in {"handleReferenceType", "handleOtherType", "handleStructType",
             "handleArrayType"} : Received("FieldChecker", ev, p)

\* C19: when the checking walk is over every illegal field of the kernel
\* object has been reported, also one that comes after an earlier error and
\* one nested in a later struct or array.
C19_EveryIllegalFieldReported ==
  Checked => \A p \in IllegalFields : Reported(p)

SpecialKinds == {"accessor", "sampler", "stream"}

\* The unions in an object of type T (at any depth), as types.
RECURSIVE UnionsIn(_)
UnionsIn(T) ==
  CASE kindOf(T) = "array" -> UnionsIn(TypeTable[T].elem)
    [] kindOf(T) \in {"struct", "union"} ->
         (IF kindOf(T) = "union" THEN {T} ELSE {})
           \cup UNION {UnionsIn(TypeTable[T].bases[i].ty) :
                         i \in 1..Len(TypeTable[T].bases)}
           \cup UNION {UnionsIn(TypeTable[T].fields[i].ty) :
                         i \in 1..Len(TypeTable[T].fields)}
    [] OTHER -> {}

\* The fields of special type of the union U itself.
ResourceFields(U) ==
  {i \in 1..Len(TypeTable[U].fields) : kindOf(TypeTable[U].fields[i].ty) \in SpecialKinds}

\* T is or contains an accessor, a sampler or a stream.
RECURSIVE HasSpecial(_)
HasSpecial(T) ==
  CASE kindOf(T) \in SpecialKinds -> TRUE
    [] kindOf(T) = "array" -> HasSpecial(TypeTable[T].elem)
    [] kindOf(T) \in {"struct", "union"} ->
         \/ \E i \in 1..Len(TypeTable[T].bases) : HasSpecial(TypeTable[T].bases[i].ty)
         \/ \E i \in 1..Len(TypeTable[T].fields) : HasSpecial(TypeTable[T].fields[i].ty)
    [] OTHER -> FALSE

UnionsEntered ==
  Cardinality({i \in 1..Len(tasks) : tasks[i].op = "leaveUnion"})

\* C20 as stated: a kernel object in which no union has more than one field
\* of special type is accepted by the union checker.
C20_SingleResourceUnionAccepted ==
  Checked /\ (\A U \in UnionsIn(kobj) : Cardinality(ResourceFields(U)) <= 1) =>
    ~UnionCheckerInvalid

\* C20, amended: the union checker rejects the kernel object exactly when a
\* union in it contains an accessor, a sampler or a stream, be it the only
\* one in that union (the field checker having stopped nothing); its counter
\* is the number of unions entered and not yet left.
C20_AnyResourceInUnionRejected ==
  /\ UnionCount = UnionsEntered
  /\ Checked /\ ~FieldCheckerInvalid =>
       UnionCheckerInvalid = (\E U \in UnionsIn(kobj) : HasSpecial(U))

\* A checked object whose only union holds one accessor and an int, and
\* which is rejected.
C20_Witness ==
  /\ Checked
  /\ ~FieldCheckerInvalid
  /\ UnionsIn(kobj) = {"UA"}
  /\ Cardinality(ResourceFields("UA")) = 1
  /\ UnionCheckerInvalid

(***************************************************************************)
(* SemaSYCL.cpp: Sema::MarkDevice and Sema::MarkSyclSimd on one kernel.    *)
(* Every function has one declaration, which is its definition.            *)
(***************************************************************************)
SYCLKernel == "kernel"

\* The kernel entry, two call operators and two plain functions.
FunctionDecls == {"kernel", "body", "inner", "f", "g"}

isSYCLKernelBodyFunction(Fd) == Fd \in {"body", "inner"}

\* An attribute object: its kind, its arguments, and the declaration it was
\* written on ("implicit" for one made by CreateImplicit).
Attribute(kind, val, owner) == [kind |-> kind, val |-> val, owner |-> owner]

NoAttr == Attribute("", <<>>, "")

SYCLSimdAttr(owner) == Attribute("SYCLSimd", <<>>, owner)

\* FD->getAttr<K>(): the first attribute of the kind, or null.
getAttr(D, Fd, kind) ==
  LET s == D[Fd].attrs IN
    IF \E i \in 1..Len(s) : s[i].kind = kind
      THEN s[CHOOSE i \in 1..Len(s) :
               s[i].kind = kind /\ \A j \in 1..(i - 1) : s[j].kind # kind]
      ELSE NoAttr

hasAttr(D, Fd, kind) == getAttr(D, Fd, kind) # NoAttr

addAttr(D, Fd, at) == [D EXCEPT ![Fd].attrs = Append(@, at)]

setInvalidDecl(D, Fd) == [D EXCEPT ![Fd].invalid = TRUE]

\* The kinds of the collected attributes that carry a value or take part in
\* a comparison.
CollectedKinds ==
  {"IntelReqdSubGroupSize", "ReqdWorkGroupSize", "SYCLIntelMaxWorkGroupSize",
   "SYCLSimd"}

\* The call graphs: plain, mutual recursion, direct recursion, a function
\* called by the kernel and by its body in either listing order, a body
\* behind a wrapper with an unreachable function, and a diamond.
CallGraph(k, b, i, cf, cg) ==
  [fn \in FunctionDecls |->
     CASE fn = "kernel" -> k [] fn = "body" -> b [] fn = "inner" -> i
       [] fn = "f" -> cf [] fn = "g" -> cg]

CallGraphs ==
  { CallGraph(<<"body">>, <<"f", "g">>, <<>>, <<>>, <<>>),
    CallGraph(<<"body">>, <<"f">>, <<>>, <<"g">>, <<"f">>),
    CallGraph(<<"body">>, <<"f", "body">>, <<>>, <<"f", "g">>, <<>>),
    CallGraph(<<"body", "f">>, <<"f", "g">>, <<>>, <<>>, <<>>),
    CallGraph(<<"f", "body">>, <<"g", "f">>, <<>>, <<>>, <<>>),
    CallGraph(<<"body">>, <<"inner">>, <<"f">>, <<>>, <<"f">>),
    CallGraph(<<"body">>, <<"g", "f">>, <<>>, <<"g">>, <<>>) }

\* What a plain function may carry: nothing or one size attribute.
MaxSubGroup == 2

SizeAttrs(fn) ==
  {<<>>}
  \cup {<<Attribute("IntelReqdSubGroupSize", <<n>>, fn)>> : n \in 1..MaxSubGroup}
  \cup {<<Attribute("ReqdWorkGroupSize", w, fn)>> :
          w \in {<<2, 2, 2>>, <<2, 8, 2>>}}
  \cup {<<Attribute("SYCLIntelMaxWorkGroupSize", w, fn)>> :
          w \in {<<4, 4, 4>>, <<8, 8, 8>>}}

SimdAttrs(fn) == {<<>>, <<SYCLSimdAttr(fn)>>}

Decl(attrs) == [attrs |-> attrs, invalid |-> FALSE]

Diagnostic(id, fn) == [diag |-> id, on |-> fn]

\* ---- Sema::MarkDevice, up to the first call of CollectKernelSet.
Frame(node, entered, next, vs) ==
  [node |-> node, entered |-> entered, next |-> next, VisitedSet |-> vs]

MarkDeviceBegin ==
  /\ mPc = "start"
  /\ mPc' = "kernelset"
  /\ Frames' = <<Frame(SYCLKernel, FALSE, 1, {})>>
  /\ UNCHANGED <<SYCLCG, Decls, KernelSet, RecursiveSet, Visited, WorkList,
                 KernelBody, Attrs, ToApply, collected, inserted, Diags>>
  /\ UNCHANGED nonMarkVars

\* ---- MarkDeviceFunction::CollectKernelSet, one activation per frame.
\* The return of an activation: its caller goes on with its next callee
\* (VisitedSet is passed by value, and the caller erases what it inserted).
ReturnFrom(frames) ==
  LET n == Len(frames) IN
    IF n = 1 THEN <<>>
    ELSE [SubSeq(frames, 1, n - 1) EXCEPT ![n - 1].next = @ + 1]

CollectKernelSetEnterAgain ==
  /\ mPc = "kernelset"
  /\ Frames # <<>>
  /\ LET top == Frames[Len(Frames)] IN
       /\ ~top.entered
       /\ KernelSet' = KernelSet \cup {top.node}
       /\ inserted' = Append(inserted, top.node)
       /\ Frames' = [Frames EXCEPT ![Len(Frames)].entered = TRUE]
  /\ UNCHANGED <<SYCLCG, Decls, mPc, RecursiveSet, Visited, WorkList,
                 KernelBody, Attrs, ToApply, collected, Diags>>
  /\ UNCHANGED nonMarkVars

\* if (!KernelSet.insert(CalleeNode).second) return;
CollectKernelSetEnter ==
  /\ mPc = "kernelset"
  /\ Frames # <<>>
  /\ LET top == Frames[Len(Frames)] IN
       /\ ~top.entered
       /\ IF top.node \in KernelSet
            THEN /\ Frames' = ReturnFrom(Frames)
                 /\ UNCHANGED <<KernelSet, inserted>>
            ELSE /\ KernelSet' = KernelSet \cup {top.node}
                 /\ inserted' = Append(inserted, top.node)
                 /\ Frames' = [Frames EXCEPT ![Len(Frames)].entered = TRUE]
  /\ UNCHANGED <<SYCLCG, Decls, mPc, RecursiveSet, Visited, WorkList,
                 KernelBody, Attrs, ToApply, collected, Diags>>
  /\ UNCHANGED nonMarkVars

\* A round that does not put the callee into the VisitedSet it passes on.
CollectKernelSetCalleeNotVisited ==
  /\ mPc = "kernelset"
  /\ Frames # <<>>
  /\ LET top == Frames[Len(Frames)] IN
       /\ top.entered
       /\ top.next <= Len(SYCLCG[top.node])
       /\ LET Callee == SYCLCG[top.node][top.next] IN
            IF Callee \in top.VisitedSet
              THEN /\ RecursiveSet' = RecursiveSet \cup {Callee, top.node}
                   /\ Frames' = [Frames EXCEPT ![Len(Frames)].next = @ + 1]
              ELSE /\ Frames' =
                        Append(Frames, Frame(Callee, FALSE, 1, top.VisitedSet))
                   /\ UNCHANGED RecursiveSet
  /\ UNCHANGED <<SYCLCG, Decls, mPc, KernelSet, Visited, WorkList,
                 KernelBody, Attrs, ToApply, collected, inserted, Diags>>
  /\ UNCHANGED nonMarkVars

\* One round of for (const CallGraphNode *CI : *N).
CollectKernelSetCallee ==
  /\ mPc = "kernelset"
  /\ Frames # <<>>
  /\ LET top == Frames[Len(Frames)] IN
       /\ top.entered
       /\ top.next <= Len(SYCLCG[top.node])
       /\ LET Callee == SYCLCG[top.node][top.next] IN
            IF Callee \in top.VisitedSet
              THEN /\ RecursiveSet' = RecursiveSet \cup {Callee, top.node}
                   /\ Frames' = [Frames EXCEPT ![Len(Frames)].next = @ + 1]
              ELSE /\ Frames' =
                        Append(Frames,
                               Frame(Callee, FALSE, 1,
                                     top.VisitedSet \cup {Callee}))
                   /\ UNCHANGED RecursiveSet
  /\ UNCHANGED <<SYCLCG, Decls, mPc, KernelSet, Visited, WorkList,
                 KernelBody, Attrs, ToApply, collected, inserted, Diags>>
  /\ UNCHANGED nonMarkVars

\* The end of the loop over the callees.
CollectKernelSetReturn ==
  /\ mPc = "kernelset"
  /\ Frames # <<>>
  /\ LET top == Frames[Len(Frames)] IN
       /\ top.entered
       /\ top.next > Len(SYCLCG[top.node])
  /\ Frames' = ReturnFrom(Frames)
  /\ UNCHANGED <<SYCLCG, Decls, mPc, KernelSet, RecursiveSet, Visited,
                 WorkList, KernelBody, Attrs, ToApply, collected, inserted,
                 Diags>>
  /\ UNCHANGED nonMarkVars

\* ---- MarkDeviceFunction::CollectPossibleKernelAttributes.
ChildParentPair(child, parent) == [first |-> child, second |-> parent]

CollectPossibleKernelAttributesBegin ==
  /\ mPc = "kernelset"
  /\ Frames = <<>>
  /\ mPc' = "collect"
  /\ WorkList' = <<ChildParentPair(SYCLKernel, "")>>
  /\ Visited' = {}
  /\ KernelBody' = ""
  /\ UNCHANGED <<SYCLCG, Decls, KernelSet, RecursiveSet, Frames, Attrs,
                 ToApply, collected, inserted, Diags>>
  /\ UNCHANGED nonMarkVars

\* The attributes of FD the traversal inserts into Attrs.
AttrsOf(D, Fd) ==
  {getAttr(D, Fd, kind) : kind \in {k \in CollectedKinds : hasAttr(D, Fd, k)}}

\* The callees the traversal pushes, in the order of the call graph node.
RECURSIVE Unvisited(_, _, _)
Unvisited(callees, seen, Fd) ==
  IF callees = <<>> THEN <<>>
  ELSE IF Head(callees) \in seen THEN Unvisited(Tail(callees), seen, Fd)
  ELSE <<ChildParentPair(Head(callees), Fd)>>
         \o Unvisited(Tail(callees), seen, Fd)

\* The kernel body after the two tests at the head of the loop.
KernelBodyAt(Fd, ParentFD, kb) ==
  IF ParentFD = SYCLKernel /\ isSYCLKernelBodyFunction(Fd) THEN Fd
  ELSE IF ParentFD = kb /\ isSYCLKernelBodyFunction(Fd) THEN Fd
  ELSE kb

\* assert(!KernelBody && "inconsistent call graph ...").
KernelBodyAsserted(Fd, ParentFD, kb) ==
  ParentFD = SYCLKernel /\ isSYCLKernelBodyFunction(Fd)
    => (IF ParentFD = kb THEN Fd ELSE kb) = ""

\* Propagate the explicit SIMD attribute through call graph.
PropagateSimd(D, Fd, kb) ==
  IF kb # "" /\ hasAttr(D, kb, "SYCLSimd") /\ kb # Fd
     /\ ~hasAttr(D, Fd, "SYCLSimd")
    THEN addAttr(D, Fd, SYCLSimdAttr("implicit"))
    ELSE D

\* One round of while (!WorkList.empty()).
CollectPossibleKernelAttributesStep ==
  /\ mPc = "collect"
  /\ WorkList # <<>>
  /\ LET Fd == WorkList[Len(WorkList)].first
         ParentFD == WorkList[Len(WorkList)].second
         rest == SubSeq(WorkList, 1, Len(WorkList) - 1)
         kb == KernelBodyAt(Fd, ParentFD, KernelBody)
     IN IF asserts /\ ~KernelBodyAsserted(Fd, ParentFD, KernelBody)
          THEN /\ mPc' = "abort"
               /\ UNCHANGED <<Decls, Visited, WorkList, KernelBody, Attrs,
                              collected>>
          ELSE /\ KernelBody' = kb
               /\ UNCHANGED mPc
               /\ IF Fd \in Visited
                    THEN /\ WorkList' = rest
                         /\ UNCHANGED <<Decls, Visited, Attrs, collected>>
                    ELSE /\ Visited' = Visited \cup {Fd}
                         /\ collected' = Append(collected, Fd)
                         /\ Attrs' = Attrs \cup AttrsOf(Decls, Fd)
                         /\ Decls' = PropagateSimd(Decls, Fd, kb)
                         /\ WorkList' =
                              rest \o Unvisited(SYCLCG[Fd],
                                                Visited \cup {Fd}, Fd)
  /\ UNCHANGED <<SYCLCG, KernelSet, RecursiveSet, Frames, ToApply, inserted,
                 Diags>>
  /\ UNCHANGED nonMarkVars

\* return KernelBody; the loop over Attrs starts.
CollectPossibleKernelAttributesReturn ==
  /\ mPc = "collect"
  /\ WorkList = <<>>
  /\ mPc' = "apply"
  /\ ToApply' = Attrs
  /\ UNCHANGED <<SYCLCG, Decls, KernelSet, RecursiveSet, Frames, Visited,
                 WorkList, KernelBody, Attrs, collected, inserted, Diags>>
  /\ UNCHANGED nonMarkVars

\* ---- for (auto *A : Attrs) switch (A->getKind()).
XDim(at) == at.val[1]
YDim(at) == at.val[2]
ZDim(at) == at.val[3]

\* The outcome of one case: the declarations and the diagnostics.
Outcome(D, ds) == [Decls |-> D, Diags |-> ds]

\* err_conflicting_sycl_kernel_attributes on F, and F->setInvalidDecl().
reportConflictingAttrs(D, ds, Fd) ==
  Outcome(setInvalidDecl(D, Fd),
          Append(ds, Diagnostic("err_conflicting_sycl_kernel_attributes", Fd)))

CaseIntelReqdSubGroupSizeUnchecked(D, ds, at, kb) ==
  Outcome(addAttr(D, SYCLKernel, at), ds)

CaseIntelReqdSubGroupSize(D, ds, at, kb) ==
  LET KBSimdAttr == IF kb # "" THEN getAttr(D, kb, "SYCLSimd") ELSE NoAttr
      Existing == getAttr(D, SYCLKernel, "IntelReqdSubGroupSize")
  IN IF Existing # NoAttr
       THEN IF Existing.val[1] # at.val[1]
              THEN reportConflictingAttrs(D, ds, SYCLKernel)
              ELSE Outcome(D, ds)
     ELSE IF KBSimdAttr # NoAttr /\ at.val[1] # 1
       THEN reportConflictingAttrs(D, ds, kb)
     ELSE Outcome(addAttr(D, SYCLKernel, at), ds)

CaseReqdWorkGroupSize(D, ds, at) ==
  LET Existing == getAttr(D, SYCLKernel, "ReqdWorkGroupSize")
      ExistingMax == getAttr(D, SYCLKernel, "SYCLIntelMaxWorkGroupSize")
  IN IF Existing # NoAttr
       THEN IF \/ XDim(Existing) # XDim(at)
               \/ YDim(Existing) # YDim(at)
               \/ ZDim(Existing) # ZDim(at)
              THEN reportConflictingAttrs(D, ds, SYCLKernel)
              ELSE Outcome(D, ds)
     ELSE IF ExistingMax # NoAttr
       THEN IF \/ XDim(ExistingMax) < XDim(at)
               \/ YDim(ExistingMax) < YDim(at)
               \/ ZDim(ExistingMax) < ZDim(at)
              THEN reportConflictingAttrs(D, ds, SYCLKernel)
              ELSE Outcome(addAttr(D, SYCLKernel, at), ds)
     ELSE Outcome(addAttr(D, SYCLKernel, at), ds)

CaseSYCLIntelMaxWorkGroupSizeUnchecked(D, ds, at) ==
  Outcome(addAttr(D, SYCLKernel, at), ds)

CaseSYCLIntelMaxWorkGroupSize(D, ds, at) ==
  LET Existing == getAttr(D, SYCLKernel, "ReqdWorkGroupSize")
  IN IF Existing # NoAttr
       THEN IF \/ XDim(Existing) > XDim(at)
               \/ YDim(Existing) > YDim(at)
               \/ ZDim(Existing) > ZDim(at)
              THEN reportConflictingAttrs(D, ds, SYCLKernel)
              ELSE Outcome(addAttr(D, SYCLKernel, at), ds)
     ELSE Outcome(addAttr(D, SYCLKernel, at), ds)

\* Usual kernel can't call ESIMD functions.
CaseSYCLSimd(D, ds, at, kb) ==
  IF kb # "" /\ ~hasAttr(D, kb, "SYCLSimd")
    THEN Outcome(setInvalidDecl(D, kb),
                 Append(ds, Diagnostic("err_sycl_function_attribute_mismatch",
                                       kb)))
    ELSE Outcome(addAttr(D, SYCLKernel, at), ds)

ApplyCase(D, ds, at, kb) ==
  CASE at.kind = "IntelReqdSubGroupSize" ->
         CaseIntelReqdSubGroupSize(D, ds, at, kb)
    [] at.kind = "ReqdWorkGroupSize" -> CaseReqdWorkGroupSize(D, ds, at)
    [] at.kind = "SYCLIntelMaxWorkGroupSize" ->
         CaseSYCLIntelMaxWorkGroupSize(D, ds, at)
    [] at.kind = "SYCLSimd" -> CaseSYCLSimd(D, ds, at, kb)

\* One round of the loop.  Attrs is a SmallPtrSet: the order of its
\* iteration follows the insertions while it is small and the addresses of
\* the attribute objects once it has grown, so every order is possible.
ApplyAttr ==
  /\ mPc = "apply"
  /\ \E at \in ToApply :
       /\ ToApply' = ToApply \ {at}
       /\ \E o \in {ApplyCase(Decls, Diags, at, KernelBody)} :
            /\ Decls' = o.Decls
            /\ Diags' = o.Diags
  /\ UNCHANGED <<SYCLCG, mPc, KernelSet, RecursiveSet, Frames, Visited,
                 WorkList, KernelBody, Attrs, collected, inserted>>
  /\ UNCHANGED nonMarkVars

\* The loop over Attrs is over.
MarkDeviceEnd ==
  /\ mPc = "apply"
  /\ ToApply = {}
  /\ mPc' = "marked"
  /\ UNCHANGED <<SYCLCG, Decls, KernelSet, RecursiveSet, Frames, Visited,
                 WorkList, KernelBody, Attrs, ToApply, collected, inserted,
                 Diags>>
  /\ UNCHANGED nonMarkVars

\* ---- Sema::MarkSyclSimd.  Its Marker builds the call graph of the same
\* translation unit, so its KernelSet is the one MarkDevice computed.
MarkNone(D, fns) == D

\* for (const auto &elt : Marker.KernelSet): the definitions without the
\* attribute get an implicit one.
MarkAll(D, fns) ==
  [fn \in DOMAIN D |->
     IF fn \in fns /\ ~hasAttr(D, fn, "SYCLSimd")
       THEN [D[fn] EXCEPT !.attrs = Append(@, SYCLSimdAttr("implicit"))]
       ELSE D[fn]]

MarkSyclSimd ==
  /\ mPc = "marked"
  /\ mPc' = "done"
  /\ Decls' = IF hasAttr(Decls, SYCLKernel, "SYCLSimd")
                THEN MarkAll(Decls, KernelSet)
                ELSE Decls
  /\ UNCHANGED <<SYCLCG, KernelSet, RecursiveSet, Frames, Visited, WorkList,
                 KernelBody, Attrs, ToApply, collected, inserted, Diags>>
  /\ UNCHANGED nonMarkVars

MarkNext ==
  \/ MarkDeviceBegin
  \/ CollectKernelSetEnter
  \/ CollectKernelSetCallee
  \/ CollectKernelSetReturn
  \/ CollectPossibleKernelAttributesBegin
  \/ CollectPossibleKernelAttributesStep
  \/ CollectPossibleKernelAttributesReturn
  \/ ApplyAttr
  \/ MarkDeviceEnd
  \/ MarkSyclSimd

\* One kernel of a translation unit: a call graph, the attributes written on
\* the two plain functions, and the SIMD marker on the call operators.
InitMark ==
  /\ asserts = TRUE
  /\ host = "little"
  /\ aPc = "idle"
  /\ aKey = ""
  /\ aCall = <<>>
  /\ aArgs = <<>>
  /\ aSuffix = ""
  /\ aNum = -1
  /\ F = <<>>
  /\ GVTS = {}
  /\ pc = "idle"
  /\ idx = 0
  /\ ESIMDIntrCalls = <<>>
  /\ ESIMDToErases = <<>>
  /\ created = <<>>
  /\ repl = <<>>
  /\ erased = <<>>
  /\ mdNode = <<>>
  /\ result = ""
  /\ diag = ""
  /\ kobj = ""
  /\ vPc = "idle"
  /\ tasks = <<>>
  /\ FieldCheckerInvalid = FALSE
  /\ UnionCheckerInvalid = FALSE
  /\ UnionCount = 0
  /\ CollectionStack = <<>>
  /\ attrRD = {}
  /\ attrFD = {}
  /\ CurOffset = 0
  /\ ArrayBaseOffsets = <<>>
  /\ StructDepth = 0
  /\ ParamDescs = <<>>
  /\ hlog = <<>>
  /\ hdrTrace = <<>>
  /\ reached = <<>>
  /\ IsSIMDKernel = FALSE
  /\ KernelNameInvalid = FALSE
  /\ KernelFuncInvalid = FALSE
  /\ SizeOfParams = 0
  /\ SizeTrap = ""
  /\ NullDeref = ""
  /\ SizeWarned = FALSE
  /\ kernel_decl = <<>>
  /\ kernel_body = <<>>
  /\ KernelDecl = <<>>
  /\ SYCLCG \in CallGraphs
  /\ \E bs \in SimdAttrs("body"), is \in SimdAttrs("inner"),
        fs \in SizeAttrs("f"), gs \in SizeAttrs("g"), gm \in SimdAttrs("g") :
       Decls = [fn \in FunctionDecls |->
                  Decl(CASE fn = "kernel" -> <<>>
                         [] fn = "body" -> bs
                         [] fn = "inner" -> is
                         [] fn = "f" -> fs
                         [] fn = "g" -> gs \o gm)]
  /\ mPc = "start"
  /\ KernelSet = {}
  /\ RecursiveSet = {}
  /\ Frames = <<>>
  /\ Visited = {}
  /\ WorkList = <<>>
  /\ KernelBody = ""
  /\ Attrs = {}
  /\ ToApply = {}
  /\ collected = <<>>
  /\ inserted = <<>>
  /\ Diags = <<>>
  /\ SLMIdle

SpecMark == InitMark /\ [][MarkNext]_vars /\ WF_vars(MarkNext)

(***************************************************************************)
(* LowerESIMD.cpp: getSLMSizeMDNode on one function of a module.  Every    *)
(* user of a function is a call instruction (no function has its address   *)
(* taken), and a kernel entry is not called.                               *)
(***************************************************************************)
ModuleFunctions == {"k", "f", "g"}

\* The most users a function has.
MaxUses == 2

UseListPool == UNION {[1..n -> ModuleFunctions] : n \in 0..MaxUses}

\* The depth of recursion at which the stack is taken to be exhausted: one
\* activation more than there are functions, so that some function is then
\* asked about for the second time below itself.
MaxCallDepth == 4

\* The genx.kernels node of kernel K (at least four operands, the first of
\* them K), and the null result.
MDNodeOf(K) == <<"node", K>>

NullNode == <<"null">>

Activation(Fn, at) == [F |-> Fn, at |-> at]

\* An activation returns v to its caller.
ReturnNode(v) ==
  /\ slmFrames' = SubSeq(slmFrames, 1, Len(slmFrames) - 1)
  /\ slmRet' = v
  /\ slmPc' = IF Len(slmFrames) = 1 THEN "done" ELSE slmPc

getSLMSizeMDNodeBegin ==
  /\ slmPc = "start"
  /\ slmPc' = "run"
  /\ slmFrames' = <<Activation(slmF, "nodes")>>
  /\ UNCHANGED <<KernelMD, UseLists, slmF, slmRet>>
  /\ UNCHANGED nonSlmVars

\* for (auto Node : Nodes->operands())
\*   if (Node->getNumOperands() >= 4 && getVal(Node->getOperand(0)) == F)
\*     return Node;
getSLMSizeMDNodeNodes ==
  /\ slmPc = "run"
  /\ slmFrames # <<>>
  /\ \E top \in {slmFrames[Len(slmFrames)]} :
       /\ top.at = "nodes"
       /\ IF top.F \in KernelMD
          THEN ReturnNode(MDNodeOf(top.F))
          ELSE /\ slmFrames' = [slmFrames EXCEPT ![Len(slmFrames)].at = "uses"]
               /\ UNCHANGED <<slmPc, slmRet>>
  /\ UNCHANGED <<KernelMD, UseLists, slmF>>
  /\ UNCHANGED nonSlmVars

\* while (!F->use_empty()) {
\*   auto CI = cast<CallInst>(F->use_begin()->getUser());
\*   auto UF = CI->getParent()->getParent();
\*   if (auto Node = getSLMSizeMDNode(UF)) ...
\* The recursion that exhausts the stack stops the compiler.
getSLMSizeMDNodeUses ==
  /\ slmPc = "run"
  /\ slmFrames # <<>>
  /\ \E top \in {slmFrames[Len(slmFrames)]} :
       /\ top.at = "uses"
       /\ IF UseLists[top.F] = <<>>
          THEN ReturnNode(NullNode)
          ELSE IF Len(slmFrames) >= MaxCallDepth
          THEN /\ slmPc' = "overflow"
               /\ UNCHANGED <<slmFrames, slmRet>>
          ELSE /\ slmFrames' =
                    Append([slmFrames EXCEPT ![Len(slmFrames)].at = "called"],
                           Activation(UseLists[top.F][1], "nodes"))
               /\ UNCHANGED <<slmPc, slmRet>>
  /\ UNCHANGED <<KernelMD, UseLists, slmF>>
  /\ UNCHANGED nonSlmVars

\*   ... if (auto Node = getSLMSizeMDNode(UF)) return Node;
\* }
getSLMSizeMDNodeCalled ==
  /\ slmPc = "run"
  /\ slmFrames # <<>>
  /\ \E top \in {slmFrames[Len(slmFrames)]} :
       /\ top.at = "called"
       /\ IF slmRet # NullNode
          THEN ReturnNode(slmRet)
          ELSE /\ slmFrames' = [slmFrames EXCEPT ![Len(slmFrames)].at = "uses"]
               /\ slmRet' = <<>>
               /\ UNCHANGED slmPc
  /\ UNCHANGED <<KernelMD, UseLists, slmF>>
  /\ UNCHANGED nonSlmVars

NodeNext ==
  \/ getSLMSizeMDNodeBegin
  \/ getSLMSizeMDNodeNodes
  \/ getSLMSizeMDNodeUses
  \/ getSLMSizeMDNodeCalled

\* A module with its genx.kernels metadata and the function the caller of
\* getSLMSizeMDNode asks about.
InitNode ==
  /\ asserts = TRUE
  /\ host = "little"
  /\ aPc = "idle"
  /\ aKey = ""
  /\ aCall = <<>>
  /\ aArgs = <<>>
  /\ aSuffix = ""
  /\ aNum = -1
  /\ F = <<>>
  /\ GVTS = {}
  /\ pc = "idle"
  /\ idx = 0
  /\ ESIMDIntrCalls = <<>>
  /\ ESIMDToErases = <<>>
  /\ created = <<>>
  /\ repl = <<>>
  /\ erased = <<>>
  /\ mdNode = <<>>
  /\ result = ""
  /\ diag = ""
  /\ kobj = ""
  /\ vPc = "idle"
  /\ tasks = <<>>
  /\ FieldCheckerInvalid = FALSE
  /\ UnionCheckerInvalid = FALSE
  /\ UnionCount = 0
  /\ CollectionStack = <<>>
  /\ attrRD = {}
  /\ attrFD = {}
  /\ CurOffset = 0
  /\ ArrayBaseOffsets = <<>>
  /\ StructDepth = 0
  /\ ParamDescs = <<>>
  /\ hlog = <<>>
  /\ hdrTrace = <<>>
  /\ reached = <<>>
  /\ IsSIMDKernel = FALSE
  /\ KernelNameInvalid = FALSE
  /\ KernelFuncInvalid = FALSE
  /\ SizeOfParams = 0
  /\ SizeTrap = ""
  /\ NullDeref = ""
  /\ SizeWarned = FALSE
  /\ kernel_decl = <<>>
  /\ kernel_body = <<>>
  /\ KernelDecl = <<>>
  /\ MarkIdle
  /\ KernelMD \in SUBSET {"k"}
  /\ UseLists \in [ModuleFunctions -> UseListPool]
  /\ \A K \in KernelMD : UseLists[K] = <<>>
  /\ slmF \in ModuleFunctions
  /\ slmPc = "start"
  /\ slmFrames = <<>>
  /\ slmRet = <<>>

SpecNode == InitNode /\ [][NodeNext]_vars /\ WF_vars(NodeNext)

(***************************************************************************)
(* Rejection of kernel objects.                                            *)
(***************************************************************************)
\* The array fields of zero length among the subobjects of the kernel object.
ZeroLengthArrays ==
  {s \in Subobjects(kobj, BS(kobj, 0), TRUE) :
     kindOf(s.Ty) = "array" /\ TypeTable[s.Ty].count = 0}

\* visitComplexArray is past handleArrayType on an array of zero length: its
\* assertion has failed, or (without assertions) enterArray has been called.
ZeroCountReached ==
  \/ /\ vPc = "abort"
     /\ tasks # <<>>
     /\ Head(tasks).op = "visitComplexArray"
     /\ TypeTable[Head(tasks).Ty].count = 0
  \/ \E h \in RealHandlers : \E i \in 1..Len(hlog[h]) :
       /\ hlog[h][i][1] = "enterArray"
       /\ TypeTable[TypeAt(kobj, hlog[h][i][2])].count = 0

\* C21: a kernel object with an array field of zero length is rejected by the
\* field checker, and visitComplexArray never gets past handleArrayType with
\* an element count of 0.
C21_ZeroLengthArrayRejected ==
  /\ Checked /\ ZeroLengthArrays # {} => FieldCheckerInvalid
  /\ ~ZeroCountReached

CheckFailed == FieldCheckerInvalid \/ UnionCheckerInvalid \/ KernelNameInvalid

\* Nothing of the entry function has been made: the three creators have
\* received no notification, there is no parameter, no body statement and no
\* descriptor entry.
NothingSynthesized ==
  /\ hlog["kernel_decl"] = <<>>
  /\ hlog["kernel_body"] = <<>>
  /\ hlog["int_header"] = <<>>
  /\ kernel_decl.Params = <<>>
  /\ ParamDescs = <<>>
  /\ KernelDecl = [params |-> <<>>, body |-> <<>>, init |-> 0]

FlatArgumentsSize == SizeOfTypes(Types(kernel_decl.Params))

\* C23: the size warning is reported exactly when the parameters of the entry
\* function take more than 2048 bytes together (2048 bytes give no warning),
\* and the warning does not make the kernel function invalid.
C23_WarnedIffOver2048 ==
  /\ VisitFinished => (SizeWarned <=> FlatArgumentsSize > 2048)
  /\ vPc \in {"checked", "gen", "done"} /\ SizeWarned /\ ~CheckFailed =>
       ~KernelFuncInvalid

\* The descriptor entries of accessors.
AccessorEntries == {i \in 1..Len(ParamDescs) : ParamDescs[i].kind = "kind_accessor"}

\* C24: from the info word of every accessor entry the access target is
\* recovered as info mod 2^11 and the number of dimensions as info div 2^11,
\* for every target of the enumeration and one to three dimensions.
C24_InfoWordSeparable ==
  \A i \in AccessorEntries :
    \E A \in {TypeTable[TypeAt(kobj, ParamDescs[i].path)]} :
      /\ ParamDescs[i].info % 2^11 = A.target
      /\ ParamDescs[i].info \div 2^11 = A.dims

\* The finished table of the kernel object with the three-dimensional
\* accessors: one entry per target, the last one for image_array.
C24_Witness ==
  /\ VisitFinished
  /\ kobj = "KD3"
  /\ Cardinality(AccessorEntries) = Len(TargetNames)
  /\ ParamDescs[7].info = 8164
  /\ {ParamDescs[i].info % 2^11 : i \in AccessorEntries} = {target[n] : n \in DOMAIN target}

(***************************************************************************)
(* Claims about MarkDevice and MarkSyclSimd.                               *)
(***************************************************************************)
\* The functions reached from the set S by zero or more calls.
RECURSIVE Closure(_)
Closure(S) ==
  LET more == S \cup UNION {Range(SYCLCG[fn]) : fn \in S} IN
    IF more = S THEN S ELSE Closure(more)

\* The functions fn calls, directly or through other functions.
CalledBy(fn) == Closure(Range(SYCLCG[fn]))

ReachableFromKernel == Closure({SYCLKernel})

\* The loop over the collected attributes is over.
MarkDeviceFinished == mPc \in {"marked", "done"}

CollectedOf(kind) == {at \in Attrs : at.kind = kind}

Applied == Range(Decls[SYCLKernel].attrs)

Conflict(fn) ==
  Diagnostic("err_conflicting_sycl_kernel_attributes", fn) \in Range(Diags)

KernelConflict == Conflict(SYCLKernel) /\ Decls[SYCLKernel].invalid

NoConflict ==
  /\ \A i \in 1..Len(Diags) :
       Diags[i].diag # "err_conflicting_sycl_kernel_attributes"
  /\ ~Decls[SYCLKernel].invalid

\* Rq is larger than Mx in at least one dimension.
Exceeds(Rq, Mx) == \E d \in 1..3 : Rq.val[d] > Mx.val[d]

\* C25: with one max_work_group_size M and one reqd_work_group_size R on the
\* functions reachable from the kernel, the kernel gets the conflict error
\* and is invalid if R exceeds M in some dimension, in either order of the
\* two; otherwise there is no conflict diagnostic and both are applied.
C25_MaxAgainstReqdWorkGroupSize ==
  MarkDeviceFinished =>
    \A Mx \in CollectedOf("SYCLIntelMaxWorkGroupSize"),
       Rq \in CollectedOf("ReqdWorkGroupSize") :
      CollectedOf("SYCLIntelMaxWorkGroupSize") = {Mx}
      /\ CollectedOf("ReqdWorkGroupSize") = {Rq} =>
        IF Exceeds(Rq, Mx) THEN KernelConflict
        ELSE NoConflict /\ {Mx, Rq} \subseteq Applied

\* R = (2,8,2) was applied first and M = (4,4,4) was refused after it.
C25_Witness ==
  /\ MarkDeviceFinished
  /\ KernelConflict
  /\ \E Rq \in CollectedOf("ReqdWorkGroupSize") :
       /\ Rq.val = <<2, 8, 2>>
       /\ Rq \in Applied
  /\ \E Mx \in CollectedOf("SYCLIntelMaxWorkGroupSize") :
       /\ Mx.val = <<4, 4, 4>>
       /\ Mx \notin Applied

\* Two collected attributes of the kind have different values.
Differ(kind) == \E x, y \in CollectedOf(kind) : x.val # y.val

\* C26 as stated: for each of the three size attribute kinds, two reachable
\* functions with different values make MarkDevice report a conflict for the
\* kernel and mark it invalid.
C26_DifferentValuesConflict ==
  MarkDeviceFinished =>
    \A kind \in {"IntelReqdSubGroupSize", "ReqdWorkGroupSize",
                 "SYCLIntelMaxWorkGroupSize"} :
      Differ(kind) => KernelConflict

\* The kernel body the traversal returned carries the SIMD marker.
SimdKernelBody == KernelBody # "" /\ hasAttr(Decls, KernelBody, "SYCLSimd")

\* C26 as amended: different reqd_work_group_size values make the kernel
\* invalid with a conflict; so do different reqd_sub_group_size values,
\* except that with a SIMD kernel body the conflict may be reported on the
\* kernel body and invalidate it instead; different max_work_group_size
\* values without a reqd_work_group_size are all applied, with no conflict.
C26_DifferentValuesByKind ==
  MarkDeviceFinished =>
    /\ Differ("ReqdWorkGroupSize") => KernelConflict
    /\ Differ("IntelReqdSubGroupSize") =>
         IF SimdKernelBody
           THEN \/ KernelConflict
                \/ Conflict(KernelBody) /\ Decls[KernelBody].invalid
           ELSE KernelConflict
    /\ Differ("SYCLIntelMaxWorkGroupSize")
       /\ CollectedOf("ReqdWorkGroupSize") = {} =>
         NoConflict /\ CollectedOf("SYCLIntelMaxWorkGroupSize") \subseteq Applied

\* Two maxima, (4,4,4) and (8,8,8), reached the valid kernel.
C26_Witness ==
  /\ MarkDeviceFinished
  /\ Differ("SYCLIntelMaxWorkGroupSize")
  /\ {at.val : at \in Applied} = {<<4, 4, 4>>, <<8, 8, 8>>}
  /\ ~Decls[SYCLKernel].invalid

\* fn carries a SIMD marker that was not written on it.
Gained(fn) ==
  \E i \in 1..Len(Decls[fn].attrs) :
    Decls[fn].attrs[i].kind = "SYCLSimd" /\ Decls[fn].attrs[i].owner # fn

Marked(fn) == hasAttr(Decls, fn, "SYCLSimd")

OnceEach(s) ==
  /\ Range(s) = ReachableFromKernel
  /\ Len(s) = Cardinality(ReachableFromKernel)

\* C28: CollectKernelSet and CollectPossibleKernelAttributes come to an
\* end on every call graph, recursive ones included, and then each has
\* visited every function reachable from the kernel exactly once and no
\* other function.
C28_TraversalsTerminateVisitingOnce ==
  /\ <>(mPc = "apply")
  /\ [](mPc = "apply" => OnceEach(inserted) /\ OnceEach(collected))

\* The traversals are over on a recursive call graph.
C28_Witness ==
  /\ mPc = "apply"
  /\ RecursiveSet = {"f", "g"}
  /\ inserted = <<"kernel", "body", "f", "g">>
  /\ collected = <<"kernel", "body", "f", "g">>

(***************************************************************************)
(* run() on functions made of SPIR-V queries: every query name, every      *)
(* dimension and three result types.                                       *)
(***************************************************************************)
\* The decimal length prefix of the mangled name __spirv_<name>_<d>.
SpirvNameLength ==
  [WorkgroupSize |-> "23", LocalInvocationId |-> "27", WorkgroupId |-> "21",
   GlobalInvocationId |-> "28", GlobalSize |-> "20", GlobalOffset |-> "22",
   NumWorkgroups |-> "23"]

SpirvSuffixes == {"x", "y", "z"}

SpirvResultTypes == {ScalT("i16"), ScalT("i32"), ScalT("i64")}

SpirvCallee(name, suff) ==
  ESIMD_INTRIN_PREF0 \o SpirvNameLength[name] \o SPIRV_INTRIN_PREF \o name
    \o "_" \o suff \o "v"

SpirvCalls ==
  { Call(SpirvCallee(name, suff), <<>>, ty) :
      name \in DOMAIN SpirvNameLength, suff \in SpirvSuffixes,
      ty \in SpirvResultTypes }

MaxSpirvCalls == 2

SpirvFunctions ==
  { [md |-> TRUE, insts |-> insts] :
      insts \in UNION {[1..n -> SpirvCalls] : n \in 1..MaxSpirvCalls} }

InitSpirv ==
  /\ asserts = TRUE
  /\ host = "little"
  /\ aPc = "idle"
  /\ aKey = ""
  /\ aCall = <<>>
  /\ aArgs = <<>>
  /\ aSuffix = ""
  /\ aNum = -1
  /\ F \in SpirvFunctions
  /\ GVTS = {VolatileTy}
  /\ pc = "entry"
  /\ idx = 0
  /\ ESIMDIntrCalls = <<>>
  /\ ESIMDToErases = <<>>
  /\ created = <<>>
  /\ repl = [i \in 1..Len(F.insts) |-> 0]
  /\ erased = [i \in 1..Len(F.insts) |-> 0]
  /\ mdNode = [SLMSize |-> 0, ArgOffsets |-> 0]
  /\ result = ""
  /\ diag = ""
  /\ kobj = ""
  /\ vPc = "idle"
  /\ tasks = <<>>
  /\ FieldCheckerInvalid = FALSE
  /\ UnionCheckerInvalid = FALSE
  /\ UnionCount = 0
  /\ CollectionStack = <<>>
  /\ attrRD = {}
  /\ attrFD = {}
  /\ CurOffset = 0
  /\ ArrayBaseOffsets = <<>>
  /\ StructDepth = 0
  /\ ParamDescs = <<>>
  /\ hlog = <<>>
  /\ hdrTrace = <<>>
  /\ reached = <<>>
  /\ IsSIMDKernel = FALSE
  /\ KernelNameInvalid = FALSE
  /\ KernelFuncInvalid = FALSE
  /\ SizeOfParams = 0
  /\ SizeTrap = ""
  /\ NullDeref = ""
  /\ SizeWarned = FALSE
  /\ kernel_decl = <<>>
  /\ kernel_body = <<>>
  /\ KernelDecl = <<>>
  /\ MarkIdle
  /\ SLMIdle

\* The steps of run() such a function takes.
SpirvNext ==
  \/ RunBegin \/ ScanSpirv \/ ScanEnd \/ TranslateEnd \/ EraseStep \/ Return

SpecSpirv == InitSpirv /\ [][SpirvNext]_vars

(***************************************************************************)
(* Claims about the SPIR-V rewrites and the byte-count rule.               *)
(***************************************************************************)
\* The dimension a suffix stands for.
DimensionOf == [x |-> 0, y |-> 1, z |-> 2]

\* The i32 value that created[k] is the conversion to ty of; 0 if there is
\* none.
Converted(k, ty) ==
  IF ty = ScalT("i32") THEN k
  ELSE IF created[k].op = ".cast.ty" /\ created[k].ty = ty
    THEN created[k].args[1]
  ELSE 0

\* created[e] is component d of the vector that the query intr returns.
IsExtract(e, intr, d) ==
  /\ e # 0
  /\ created[e].op = "extractelement"
  /\ created[e].index = d
  /\ created[created[e].args[1]].op = "genx." \o intr

IsGroupId(e, suff) == e # 0 /\ created[e].op = "genx.group.id." \o suff

\* created[k] is op applied, at type ty, to two values.
IsBinary(k, op, ty) ==
  created[k].op = op /\ created[k].ty = ty /\ Len(created[k].args) = 2

\* C30: a GlobalInvocationId query for dimension d is replaced by
\* local_id[d] + workgroup_size[d] * group_id[d] and a GlobalSize query by
\* workgroup_size[d] * num_workgroups[d]; every component is converted to
\* the result type of the call before the arithmetic, which has that type;
\* d is 0, 1, 2 for the suffixes x, y, z.
C30_GlobalIdAndSizeRewrites ==
  \A i \in 1..Len(F.insts), suff \in SpirvSuffixes :
    repl[i] > 0 =>
      \E r \in {repl[i]}, ty \in {F.insts[i].retTy}, d \in {DimensionOf[suff]} :
        /\ F.insts[i].callee = SpirvCallee("GlobalInvocationId", suff) =>
             /\ IsBinary(r, "add", ty)
             /\ IsExtract(Converted(created[r].args[1], ty), "local.id.v3i32", d)
             /\ \E m \in {created[r].args[2]} :
                  /\ IsBinary(m, "mul", ty)
                  /\ IsExtract(Converted(created[m].args[1], ty),
                               "local.size.v3i32", d)
                  /\ IsGroupId(Converted(created[m].args[2], ty), suff)
        /\ F.insts[i].callee = SpirvCallee("GlobalSize", suff) =>
             /\ IsBinary(r, "mul", ty)
             /\ IsExtract(Converted(created[r].args[1], ty),
                          "local.size.v3i32", d)
             /\ IsExtract(Converted(created[r].args[2], ty),
                          "group.count.v3i32", d)

\* A 64-bit GlobalInvocationId_z and a 16-bit GlobalSize_x were rewritten
\* and erased.
C30_Witness ==
  /\ pc = "done"
  /\ F.insts = <<Call(SpirvCallee("GlobalInvocationId", "z"), <<>>, ScalT("i64")),
                 Call(SpirvCallee("GlobalSize", "x"), <<>>, ScalT("i16"))>>
  /\ created[repl[1]].op = "add"
  /\ created[repl[2]].op = "mul"
  /\ erased = <<1, 1>>

\* The NUM_BYTES rules of the entry under evaluation.
NumBytesRules ==
  {j \in 1..Len(IntrinTable[aKey].ArgRules) :
     IntrinTable[aKey].ArgRules[j].Kind = "NUM_BYTES"}

\* The element width of the operand (or return value) the rule designates.
DesignatedWidth(j) ==
  LET No == IntrinTable[aKey].ArgRules[j].CallArgNo IN
    EltBits((IF No = -1 THEN aCall.retTy ELSE aCall.argTys[No + 1]).elt)

\* C29: where the byte-count rule finds an element width other than 8, 16
\* or 32 the compilation is aborted, and for these three widths the rule
\* injects the i32 constant width div 16.
C29_ByteCountWidthChecked ==
  \A j \in NumBytesRules :
    \E w \in {DesignatedWidth(j)} :
      /\ aPc \notin {"start", "suffixed"} /\ w \notin {8, 16, 32} => aPc = "abort"
      /\ aPc = "done" /\ w \in {8, 16, 32} =>
           aArgs[j] = [k |-> "const", bits |-> 32, n |-> w \div 16]

(***************************************************************************)
(* Properties of the visitor's opt-outs, of the body creator's parameter   *)
(* references and of the struct-depth counters.                            *)
(***************************************************************************)
OptOutOfNth == {h \in RealHandlers : ~VisitNthArrayElement[h]}

OptInToNth == {h \in RealHandlers : VisitNthArrayElement[h]}

\* The notification is about a later element of some array, at any level.
LaterElement(p) == \E s \in 1..Len(p) : p[s][1] = "e" /\ p[s][2] >= 1

\* The positions in the log of h, after position i and before the
\* leaveArray of the array at p, of the nextElement notifications for the
\* elements of that array.
LeaveOf(h, i, p) ==
  LET J == {j \in (i + 1)..Len(hlog[h]) : hlog[h][j] = <<"leaveArray", p>>} IN
    IF J = {} THEN Len(hlog[h]) + 1 ELSE CHOOSE j \in J : \A k \in J : j <= k

ElementsOf(h, i, p) ==
  {k \in (i + 1)..(LeaveOf(h, i, p) - 1) :
     /\ hlog[h][k][1] = "nextElement"
     /\ Len(hlog[h][k][2]) = Len(p) + 1
     /\ IsPrefix(p, hlog[h][k][2])}

ElementIndex(h, k) == Back(hlog[h][k][2])[2]

\* Elements 0, 1, 2, ... in this order, and all of them once the array is
\* left.
AllElementsInOrder(h, i, p) ==
  LET K == ElementsOf(h, i, p) IN
    /\ \A k \in K : ElementIndex(h, k) = Cardinality({n \in K : n < k})
    /\ LeaveOf(h, i, p) <= Len(hlog[h]) =>
         Cardinality(K) = TypeTable[TypeAt(kobj, p)].count

\* The element calls visitComplexArray makes for the array of the call tk
\* in which handler h takes part, when the pack is hs.
ElementCalls(h, tk, hs) ==
  LET calls == visitComplexArrayBody([tk EXCEPT !.Handlers = hs]) IN
    [n \in 1..Len(calls) |->
       IF calls[n].op = "visitArrayElementImpl" /\ h \in Range(calls[n].Handlers)
       THEN calls[n].Index ELSE -1]

Without(h, calls) == SelectSeq(calls, LAMBDA n : n # -1 /\ h # "Empty")

\* The pack with handler x put in front of it.
WithHandler(x, hs) == <<x>> \o hs

\* C31: a handler that opts out of VisitNthArrayElement is notified of
\* nothing about an element with index 1 or more, at any nesting level, so
\* its nextElement notifications are for index 0 only; a handler that opts
\* in receives, between enterArray and leaveArray, nextElement for the
\* elements 0..N-1 in increasing order; and putting a handler that opts out
\* into the pack of a visitComplexArray call changes the element calls of
\* no other handler of the pack, while it takes part in the first only.
C31_NthElementOptOut ==
  /\ \A h \in OptOutOfNth : \A k \in 1..Len(hlog[h]) :
       ~LaterElement(hlog[h][k][2])
  /\ \A h \in OptInToNth : \A i \in 1..Len(hlog[h]) :
       hlog[h][i][1] = "enterArray" =>
         AllElementsInOrder(h, i, hlog[h][i][2])
  /\ (Walking /\ Head(tasks).op = "visitComplexArray") =>
       \A x \in OptOutOfNth \ Range(Head(tasks).Handlers) :
         \E tk \in {Head(tasks)} : \E hs \in {WithHandler(x, tk.Handlers)} :
           /\ \A h \in Range(tk.Handlers) \ {"Empty"} :
                Without(h, ElementCalls(h, tk, hs))
                  = Without(h, ElementCalls(h, tk, tk.Handlers))
           /\ AnyTrue(VisitNthArrayElement, tk.Handlers) =>
                Without(x, ElementCalls(x, tk, hs)) = <<0>>

\* The finished walks of the kernel object with the two-dimensional
\* pointer array: the checkers saw element [0][0] only, the declaration
\* creator saw [1][1] too, and the size checker entered the array.
C31_Witness ==
  /\ VisitFinished
  /\ kobj = "KA"
  /\ Received("FieldChecker", "nextElement", <<Step("f", 3), Step("e", 0), Step("e", 0)>>)
  /\ Received("kernel_decl", "nextElement", <<Step("f", 3), Step("e", 1), Step("e", 1)>>)
  /\ Received("ArgsSizeChecker", "enterArray", <<Step("f", 3)>>)

\* The stream fields the body creator has left, and the accessor fields of
\* the stream class at p.
StreamsLeft == {p \in FieldPaths(kobj, <<>>) : Received("kernel_body", "leaveStream", p)}

AccessorsIn(p) ==
  {p \o <<Step("f", i)>> :
     i \in {n \in 1..Len(TypeTable[TypeAt(kobj, p)].fields) :
              kindOf(TypeTable[TypeAt(kobj, p)].fields[n].ty) = "accessor"}}

\* The init calls in b on the object at p.
InitCallsOn(b, p) == {i \in InitCalls(b) : b[i].object = p}

\* The object of the call is visited after the stream at p, outside it.
VisitedLater(p, object) == ~IsPrefix(p, object) /\ NotAfter(p, object)

\* C32: for every stream field, the init call of the stream stands in the
\* body after the init calls of all accessors contained in the stream and
\* before the init calls of the fields visited later (and after those of
\* what was visited before); every accessor of the stream has its init
\* call, and in a kernel that is not ESIMD the stream has exactly one.
C32_StreamInitAfterItsAccessors ==
  \E b \in {kernel_body.BodyStmts} :
    \A p \in StreamsLeft :
      /\ ~IsSIMDKernel => Cardinality(InitCallsOn(b, p)) = 1
      /\ \A q \in AccessorsIn(p) : Cardinality(InitCallsOn(b, q)) = 1
      /\ \A s \in InitCallsOn(b, p) :
           /\ \A q \in AccessorsIn(p) : \A i \in InitCallsOn(b, q) : i < s
           /\ \A i \in InitCalls(b) \ {s} :
                /\ Inside(p, b[i].object) => i < s
                /\ ~Inside(p, b[i].object) =>
                     (i > s <=> VisitedLater(p, b[i].object))

\* The body of a kernel whose stream field holds an accessor, with init
\* calls of fields visited before and after the stream.
C32_Witness ==
  /\ VisitFinished
  /\ ~IsSIMDKernel
  /\ \E b \in {kernel_body.BodyStmts} :
     \E p \in StreamsLeft : \E s \in InitCallsOn(b, p) :
       /\ AccessorsIn(p) # {}
       /\ \E i \in InitCalls(b) : i < s /\ ~Inside(p, b[i].object)
       /\ \E i \in InitCalls(b) : i > s /\ VisitedLater(p, b[i].object)
       /\ KernelDecl.body[s] = b[s]

\* The initialisers the body creator has made that copy from a parameter.
ParamCopies ==
  UNION {{kernel_body.InitLists[n].inits[i] :
            i \in {j \in 1..Len(kernel_body.InitLists[n].inits) :
                     kernel_body.InitLists[n].inits[j].kind = "copy"}} :
         n \in 1..Len(kernel_body.InitLists)}

\* The pointer parameters, by the index createParamReferenceExpr uses.
PointerParamIndices ==
  {i \in 0..(Len(kernel_decl.Params) - 1) :
     kindOf(kernel_decl.Params[i + 1].type) = "pointer"
       /\ kindOf(TypeAt(kobj, kernel_decl.Params[i + 1].path)) = "pointer"}

\* C36: the StructDepth of the declaration creator equals that of the body
\* creator after every notification of the generating walk, so also at
\* every pointer field, and the body reads the pointer out of a
\* __wrapper_class member for exactly the pointer parameters the declaration
\* creator wrapped; both counters are 0 after the walk.
C36_StructDepthsAgree ==
  Generating =>
    /\ kernel_decl.StructDepth = kernel_body.StructDepth
    /\ \A i \in PointerParamIndices :
         /\ Cardinality({c \in ParamCopies : c.param = i}) = 1
         /\ \A c \in ParamCopies :
              c.param = i => c.unwrap = kernel_decl.Params[i + 1].wrapped
    /\ VisitFinished => kernel_decl.StructDepth = 0 /\ kernel_body.StructDepth = 0

\* A finished walk that made a wrapped pointer parameter for a pointer in a
\* base class and a raw one for a pointer field of the kernel object.
C36_Witness ==
  /\ VisitFinished
  /\ \E i, j \in PointerParamIndices :
       /\ kernel_decl.Params[i + 1].wrapped
       /\ kernel_decl.Params[i + 1].path[1][1] = "b"
       /\ ~kernel_decl.Params[j + 1].wrapped
       /\ \E c, d \in ParamCopies :
            c.param = i /\ c.unwrap /\ d.param = j /\ ~d.unwrap

\* The parameter the declaration creator made for the subobject at p was
\* declared as a pointer, not as a __wrapper_class.
UnwrappedPointerParam(p) ==
  \E i \in PointerParamIndices :
    kernel_decl.Params[i + 1].path = p /\ ~kernel_decl.Params[i + 1].wrapped

WrappedPointerParam(p) ==
  \E i \in PointerParamIndices :
    kernel_decl.Params[i + 1].path = p /\ kernel_decl.Params[i + 1].wrapped

\* C37: a descriptor entry is tagged kind_pointer exactly when the
\* parameter of the entry function it belongs to was declared as an
\* unwrapped pointer; the entry of every pointer parameter that the
\* declaration creator wrapped in a __wrapper_class, a pointer reached
\* through a decomposed base class included, is tagged kind_std_layout.
C37_PointerKindIffUnwrapped ==
  VisitFinished =>
    \A i \in 1..Len(ParamDescs) :
      /\ ParamDescs[i].kind = "kind_pointer"
           <=> UnwrappedPointerParam(ParamDescs[i].path)
      /\ WrappedPointerParam(ParamDescs[i].path)
           => ParamDescs[i].kind = "kind_std_layout"

\* The notifications at which the body creator builds a reference to a
\* parameter or a call of an init or finalize method.
HandleNotifications ==
  {"handleSyclAccessorType", "handleSyclSamplerType", "handleSyclStreamType",
   "handleSyclHalfType", "handleScalarType", "handleUnionType",
   "handleNonDecompStruct", "handlePointerType", "handleSimpleArrayType"}

\* The last notification of the body creator, if it builds something: a
\* stream base gets neither parameter nor initialiser.
JustBuilt ==
  IF hlog["kernel_body"] = <<>> THEN {}
  ELSE {n \in {Back(hlog["kernel_body"])} :
          /\ n[1] \in HandleNotifications \cup {"leaveStream"}
          /\ ~(n[1] = "handleSyclStreamType" /\ Back(n[2])[1] = "b")}

\* The methods whose call createSpecialMethodCall builds at ev, those the
\* class at p declares.
MethodsCalledAt(ev, p) ==
  {m \in (CASE ev \in {"handleSyclAccessorType", "handleSyclSamplerType"} ->
                 {getInitMethodName(IsSIMDKernel)}
            [] ev = "leaveStream" ->
                 {getInitMethodName(IsSIMDKernel), FinalizeMethodName}
            [] OTHER -> {}) :
     getMethodByName(TypeAt(kobj, p), m).found}

\* The range begins at the first parameter made for the subobject at p.
RangeBeginsAt(p) ==
  /\ getParamVarDeclsForCurrentField(kernel_decl) # <<>>
  /\ getParamVarDeclsForCurrentField(kernel_decl)[1].path = p
  /\ \A j \in 1..kernel_decl.LastParamIndex : kernel_decl.Params[j].path # p

\* The range holds a parameter for every parameter of the methods called.
RangeCovers(ev, p) ==
  \A m \in MethodsCalledAt(ev, p) :
    Len(getParamVarDeclsForCurrentField(kernel_decl))
      >= Len(getMethodByName(TypeAt(kobj, p), m).parameters)

\* The calls the body creator has built so far.
CallsBuilt ==
  {s \in Range(kernel_body.BodyStmts) \cup Range(kernel_body.FinalizeStmts) :
     s.kind = "call"}

\* The arguments of the call are parameters made for the object of the
\* call, or for the base of it that declares the method.
OwnArguments(s) ==
  \A I \in 1..Len(s.args) :
    /\ s.args[I] + 1 \in 1..Len(kernel_decl.Params)
    /\ \E q \in {kernel_decl.Params[s.args[I] + 1].path} :
         \/ q = s.object
         \/ /\ Len(q) = Len(s.object) + 1
            /\ IsPrefix(s.object, q)
            /\ Back(q)[1] = "b"

\* C38 as stated: whenever the body creator builds a parameter reference
\* or an init or finalize call for a field, array element, base or stream,
\* the range of getParamVarDeclsForCurrentField begins at the first
\* parameter made for that same item and holds at least as many parameters
\* as the method called takes, and no call refers to a parameter made for
\* another field.
C38_RangeIsOfSameItem ==
  /\ \A n \in JustBuilt : RangeBeginsAt(n[2]) /\ RangeCovers(n[1], n[2])
  /\ \A s \in CallsBuilt : OwnArguments(s)

\* C38: at every handle notification of a field, array element or base
\* the range begins at the first parameter made for that item and holds at
\* least as many parameters as the method called takes, and no call refers
\* to a parameter made for another field; at leaveStream the range begins
\* where the last notification inside the stream left it, at the first
\* parameter of the last accessor of the stream if it has one, and the
\* init and finalize calls of the stream take no argument from it.
C38_RangeIsOfSameItemButStream ==
  /\ \A n \in JustBuilt :
       /\ RangeCovers(n[1], n[2])
       /\ n[1] # "leaveStream" => RangeBeginsAt(n[2])
       /\ n[1] = "leaveStream" =>
            /\ \A m \in MethodsCalledAt(n[1], n[2]) :
                 getMethodByName(TypeAt(kobj, n[2]), m).parameters = <<>>
            /\ \A q \in AccessorsIn(n[2]) :
                 (\A r \in AccessorsIn(n[2]) : NotAfter(r, q)) => RangeBeginsAt(q)
            /\ AccessorsIn(n[2]) = {} => RangeBeginsAt(n[2])
  /\ \A s \in CallsBuilt : OwnArguments(s)

\* The body creator has left a stream that holds an accessor, after the
\* init call of an accessor with three parameters was built.
C38_Witness ==
  /\ \E n \in JustBuilt :
       /\ n[1] = "leaveStream"
       /\ AccessorsIn(n[2]) # {}
       /\ MethodsCalledAt(n[1], n[2]) # {}
  /\ \E s \in CallsBuilt : Len(s.args) = 3

(***************************************************************************)
(* Properties of the result of run() and of the SLM size metadata.         *)
(***************************************************************************)
\* run() has returned.
Returned == pc = "done" /\ result # ""

\* run() created or erased an instruction of the function or redirected the
\* uses of one.
FunctionChanged ==
  \/ created # <<>>
  \/ \E i \in 1..Len(F.insts) : erased[i] > 0 \/ repl[i] # 0

\* C33: run() returns all-preserved only when it left the function
\* unchanged; whenever it changed the function, by a table-driven or a
\* special-cased rewrite, a SPIR-V query rewrite or the fp-to-int cast
\* rewrite, its result does not preserve all analyses.
C33_ChangedMeansNotPreserved ==
  Returned => (result = "all" <=> ~FunctionChanged)

\* The constant sizes the slm_init calls of the function ask for.
SLMRequests ==
  {F.insts[i].slm : i \in {n \in 1..Len(F.insts) :
                             Classify(F.insts[n], GVTS) = "slm_init"}}

Maximum(S) == CHOOSE m \in S : \A n \in S : n <= m

\* C34: after run() has processed a kernel with slm_init calls of constant
\* size, the SLM-size operand of the kernel's genx.kernels node is the
\* maximum of the requested sizes, whatever the order of the calls; a later
\* smaller request does not lower it.
C34_SLMSizeIsMaximum ==
  (Returned /\ F.md /\ SLMRequests # {}) => mdNode.SLMSize = Maximum(SLMRequests)

\* The functions that call Fn, and those that call it through any number
\* of calls.
CallersOf(Fn) == Range(UseLists[Fn])

RECURSIVE TransitiveCallers(_, _)
TransitiveCallers(S, seen) ==
  LET new == (UNION {CallersOf(Fn) : Fn \in S}) \ seen IN
    IF new = {} THEN seen ELSE TransitiveCallers(new, seen \cup new)

\* The value getSLMSizeMDNode returned is what it is meant to find.
NodeFound ==
  IF slmF \in KernelMD THEN slmRet = MDNodeOf(slmF)
  ELSE \/ \E K \in KernelMD \cap TransitiveCallers({slmF}, {}) :
            slmRet = MDNodeOf(K)
       \/ /\ KernelMD \cap TransitiveCallers({slmF}, {}) = {}
          /\ slmRet = NullNode

\* C35: getSLMSizeMDNode terminates for every module and every function;
\* for a kernel it returns the kernel's metadata node, for another function
\* the node of a kernel that transitively calls it, or null when there is
\* none.
C35_GetSLMSizeMDNodeTerminates ==
  /\ <>(slmPc = "done")
  /\ [](slmPc = "done" => NodeFound)

(***************************************************************************)
(* Properties of the recursion detection of CollectKernelSet and of the    *)
(* order in which MarkDevice applies the collected attributes.             *)
(***************************************************************************)
CollectKernelSetDone == mPc \notin {"idle", "start"} /\ Frames = <<>>

\* The functions called from the kernel, directly or not.
DeviceFunctions == FunctionDecls \ {SYCLKernel}

\* The functions of S reached from those of T by one or more calls that
\* stay inside S.
RECURSIVE CalledInside(_, _, _)
CalledInside(T, S, seen) ==
  LET next == ((UNION {Range(SYCLCG[fn]) : fn \in T}) \cap S) \ seen IN
    IF next = {} THEN seen ELSE CalledInside(next, S, seen \cup next)

\* fn lies on a cycle of the call graph all of whose functions are in S.
OnCycleInside(fn, S) == fn \in S /\ fn \in CalledInside({fn}, S, {})

\* The functions the kernel reaches without passing through itself.
ReachedThrough == CalledInside({SYCLKernel}, DeviceFunctions, {})

\* C39: once CollectKernelSet has run for the kernel, every function in
\* RecursiveSet lies on a cycle of the call graph, and every cycle that the
\* kernel reaches through functions other than the kernel itself has at
\* least one of its functions in RecursiveSet: no cycle is left among the
\* reached functions that are not in RecursiveSet.
C39_RecursiveSetIsCycles ==
  CollectKernelSetDone =>
    /\ \A fn \in RecursiveSet : OnCycleInside(fn, FunctionDecls)
    /\ \A fn \in ReachedThrough :
         ~OnCycleInside(fn, ReachedThrough \ RecursiveSet)

\* A call graph with two direct recursions below the kernel, after the
\* walk, and a reached function that is not recursive.
C39_Witness ==
  /\ CollectKernelSetDone
  /\ \E fn, gn \in RecursiveSet :
       /\ fn # gn
       /\ OnCycleInside(fn, {fn})
       /\ OnCycleInside(gn, {gn})
  /\ RecursiveSet # ReachedThrough

\* The orders in which the loop can go through the set S.
Orders(S) ==
  {o \in [1..Cardinality(S) -> S] : \A i, j \in DOMAIN o : o[i] = o[j] => i = j}

\* The loop over Attrs in the order o, from its n-th round on.
RECURSIVE ApplyInOrder(_, _, _)
ApplyInOrder(out, o, n) ==
  IF n > Len(o) THEN out
  ELSE ApplyInOrder(ApplyCase(out.Decls, out.Diags, o[n], KernelBody), o, n + 1)

\* The functions that were diagnosed and set invalid.
Diagnosed(D) == {fn \in FunctionDecls : D[fn].invalid}

\* The sets of diagnosed functions the orders of the loop end with.
Outcomes ==
  {Diagnosed(ApplyInOrder(Outcome(Decls, Diags), o, 1).Decls) : o \in Orders(Attrs)}

\* C40: at the start of the loop over the collected attributes, every
\* order of processing them ends with the same set of functions diagnosed
\* as conflicting and set invalid.
C40_OrderIndependent ==
  (mPc = "apply" /\ ToApply = Attrs) => Cardinality(Outcomes) = 1

====
